---- MODULE Spec2Model ----
(***************************************************************************)
(* A model of the markdown task store of React-Tasks (src/src/App.jsx):    *)
(* the tag/title normalisation, the frontmatter codec, the task directory, *)
(* the logbook file and the HTTP handlers that operate on them.            *)
(*                                                                         *)
(* JavaScript strings are modelled as sequences of one-character strings,  *)
(* so that trim, toLowerCase, slugify, JSON escaping and the frontmatter   *)
(* parser are computed character by character.  JavaScript values of       *)
(* unknown type (request bodies, parsed frontmatter) are records           *)
(* [t |-> type tag, v |-> payload].                                        *)
(***************************************************************************)
EXTENDS Integers, Sequences, FiniteSets, TLC

VARIABLES
    files,      \* the task directory: file name -> content
    logbook,    \* the log file: the entries of its lines, oldest first
    uuids,      \* how many UUIDs randomUUID has drawn
    clock,      \* the time, in the unit new Date() resolves
    nreq,       \* how many requests have been handled
    last,       \* the last request handled and the response sent
    call,       \* the request in flight where handlers run step by step
    arg,        \* pure-function specifications: the input drawn at Init
    res         \* pure-function specifications: the result, NoResult before the call

vars == <<files, logbook, uuids, clock, nreq, last, call, arg, res>>

storeVars == <<files, logbook, uuids, clock, nreq, last, call>>

NoResult == [called |-> FALSE]

(***************************************************************************)
(* Characters and strings                                                  *)
(***************************************************************************)
UpperCase == <<"A","B","C","D","E","F","G","H","I","J","K","L","M",
               "N","O","P","Q","R","S","T","U","V","W","X","Y","Z">>
LowerCase == <<"a","b","c","d","e","f","g","h","i","j","k","l","m",
               "n","o","p","q","r","s","t","u","v","w","x","y","z">>
Digits == <<"0","1","2","3","4","5","6","7","8","9">>

Range(s) == {s[i] : i \in 1..Len(s)}

\* const v = e; ...: Bind(e, LAMBDA v : body) is body with v the value of e.
Bind(e, Body(_)) == CHOOSE result \in {Body(bound) : bound \in {e}} : TRUE

\* The white space String.prototype.trim removes, as far as the model's
\* alphabet has it: space, tab, line feed.
WhiteSpace == {" ", "\t", "\n"}

\* The lower-case letter of each upper-case letter.
LowerOf == [c \in Range(UpperCase) |->
                LowerCase[CHOOSE i \in 1..Len(UpperCase) : UpperCase[i] = c]]

CharToLower(c) == IF c \in DOMAIN LowerOf THEN LowerOf[c] ELSE c

ToLowerCase(s) == [i \in 1..Len(s) |-> CharToLower(s[i])]

\* Index of the first character at or after i, and of the last one at or
\* before i, that is not white space (Len(s) + 1 and 0 when there is none).
RECURSIVE FirstNonSpaceFrom(_, _)
FirstNonSpaceFrom(s, i) ==
    IF i > Len(s) \/ s[i] \notin WhiteSpace THEN i ELSE FirstNonSpaceFrom(s, i + 1)

RECURSIVE LastNonSpaceUpTo(_, _)
LastNonSpaceUpTo(s, i) ==
    IF i < 1 \/ s[i] \notin WhiteSpace THEN i ELSE LastNonSpaceUpTo(s, i - 1)

FirstNonSpace(s) == FirstNonSpaceFrom(s, 1)
LastNonSpace(s) == LastNonSpaceUpTo(s, Len(s))

Trim(s) == SubSeq(s, FirstNonSpace(s), LastNonSpace(s))
TrimEnd(s) == SubSeq(s, 1, LastNonSpace(s))

\* s.includes(c), s.indexOf(c) (0-based, -1 when absent) for one character c.
RECURSIVE IndexFrom(_, _, _)
IndexFrom(s, c, i) ==
    IF i > Len(s) THEN -1 ELSE IF s[i] = c THEN i - 1 ELSE IndexFrom(s, c, i + 1)

IndexOf(s, c) == IndexFrom(s, c, 1)
Includes(s, c) == IndexOf(s, c) # -1

\* s.split(c) for one character c: the pieces between the occurrences of c.
RECURSIVE Split(_, _)
Split(s, c) ==
    LET k == IndexOf(s, c)
    IN  IF k = -1 THEN <<s>>
        ELSE <<SubSeq(s, 1, k)>> \o Split(SubSeq(s, k + 2, Len(s)), c)

\* pieces.join(sep)
RECURSIVE Join(_, _)
Join(pieces, sep) ==
    IF pieces = <<>> THEN <<>>
    ELSE IF Len(pieces) = 1 THEN pieces[1]
    ELSE pieces[1] \o sep \o Join(Tail(pieces), sep)

RECURSIVE NatToStr(_)
NatToStr(n) ==
    IF n < 10 THEN <<Digits[n + 1]>>
    ELSE NatToStr(n \div 10) \o <<Digits[(n % 10) + 1]>>

IntToStr(n) == IF n < 0 THEN <<"-">> \o NatToStr(0 - n) ELSE NatToStr(n)

(***************************************************************************)
(* JavaScript values                                                       *)
(***************************************************************************)
JStr(s) == [t |-> "str", v |-> s]
JNum(n) == [t |-> "num", v |-> n]
JBool(b) == [t |-> "bool", v |-> b]
JArr(a) == [t |-> "arr", v |-> a]
JNull == [t |-> "null", v |-> <<>>]
JUndef == [t |-> "undef", v |-> <<>>]
JNaN == [t |-> "nan", v |-> <<>>]

IsNullish(x) == x.t \in {"null", "undef"}

\* x ?? d
Coalesce(x, d) == IF IsNullish(x) THEN d ELSE x

\* x || d and Boolean(x)
JsTruthy(x) ==
    CASE x.t = "str" -> x.v # <<>>
      [] x.t = "num" -> x.v # 0
      [] x.t = "bool" -> x.v
      [] x.t = "arr" -> TRUE
      [] OTHER -> FALSE

\* String(x)
RECURSIVE JsString(_)
JsString(x) ==
    CASE x.t = "str" -> x.v
      [] x.t = "num" -> IntToStr(x.v)
      [] x.t = "bool" -> IF x.v THEN <<"t","r","u","e">> ELSE <<"f","a","l","s","e">>
      [] x.t = "null" -> <<"n","u","l","l">>
      [] x.t = "undef" -> <<"u","n","d","e","f","i","n","e","d">>
      [] x.t = "nan" -> <<"N","a","N">>
      [] x.t = "arr" ->
            Join([i \in 1..Len(x.v) |->
                     IF IsNullish(x.v[i]) THEN <<>> ELSE JsString(x.v[i])], <<",">>)

\* array.map(JStr): the strings of a sequence as JavaScript values
StrValues(ss) == [i \in 1..Len(ss) |-> JStr(ss[i])]

(***************************************************************************)
(* Seed tasks, tag and task normalisation, file names                      *)
(***************************************************************************)
DEFAULT_TAG == <<"G","e","n","e","r","a","l">>

seedTasks == <<
    [id |-> <<"t","1">>,
     title |-> <<"B","o","o","k"," ","d","e","n","t","i","s","t"," ","a","p","p","o","i","n","t","m","e","n",
               "t">>,
     description |->
        <<"C","a","l","l"," ","t","h","e"," ","c","l","i","n","i","c"," ","a","n","d"," ","c","o","n",
        "f","i","r","m"," ","a","n"," ","e","a","r","l","y","-","m","o","r","n","i","n","g"," ","s",
        "l","o","t"," ","f","o","r"," ","n","e","x","t"," ","w","e","e","k",".">>,
     tags |-> << <<"P","e","r","s","o","n","a","l">> >>,
     done |-> FALSE,
     order |-> 0],
    [id |-> <<"t","2">>,
     title |-> <<"S","e","n","d"," ","i","n","v","o","i","c","e"," ","t","o"," ","M","a","r","c","o">>,
     description |->
        <<"I","n","c","l","u","d","e"," ","t","h","e"," ","r","e","v","i","s","e","d"," ","h","o","u",
        "r","l","y"," ","b","r","e","a","k","d","o","w","n"," ","a","n","d"," ","p","a","y","m","e",
        "n","t"," ","d","u","e"," ","d","a","t","e"," ","i","n"," ","t","h","e"," ","e","m","a","i",
        "l",".">>,
     tags |-> << <<"W","o","r","k">> >>,
     done |-> FALSE,
     order |-> 1],
    [id |-> <<"t","3">>,
     title |-> <<"R","u","n"," ","8","k","m"," ","e","a","s","y">>,
     description |->
        <<"K","e","e","p"," ","i","t"," ","c","o","n","v","e","r","s","a","t","i","o","n","a","l"," ",
        "p","a","c","e"," ","a","n","d"," ","f","i","n","i","s","h"," ","w","i","t","h"," ","1","0",
        " ","m","i","n","u","t","e","s"," ","o","f"," ","m","o","b","i","l","i","t","y"," ","w","o",
        "r","k",".">>,
     tags |-> << <<"H","e","a","l","t","h">> >>,
     done |-> TRUE,
     order |-> 2],
    [id |-> <<"t","4">>,
     title |-> <<"R","e","f","a","c","t","o","r"," ","n","a","v","b","a","r"," ","a","n","i","m","a","t","i",
               "o","n">>,
     description |->
        <<"S","e","p","a","r","a","t","e"," ","t","r","a","n","s","i","t","i","o","n"," ","t","i","m",
        "i","n","g"," ","f","r","o","m"," ","l","a","y","o","u","t"," ","l","o","g","i","c"," ","t",
        "o"," ","r","e","d","u","c","e"," ","j","a","n","k"," ","o","n"," ","m","o","b","i","l","e",
        ".">>,
     tags |-> << <<"W","o","r","k">> >>,
     done |-> FALSE,
     order |-> 3],
    [id |-> <<"t","5">>,
     title |-> <<"P","l","a","n"," ","S","u","n","d","a","y"," ","r","i","d","e">>,
     description |->
        <<"P","i","c","k"," ","r","o","u","t","e",","," ","w","e","a","t","h","e","r"," ","w","i","n",
        "d","o","w",","," ","a","n","d"," ","c","o","f","f","e","e"," ","s","t","o","p"," ","b","e",
        "f","o","r","e"," ","S","a","t","u","r","d","a","y"," ","n","i","g","h","t",".">>,
     tags |-> << <<"P","e","r","s","o","n","a","l">> >>,
     done |-> FALSE,
     order |-> 4]
>>

\* inferDefaultTags(taskId): the tags of the seed task of that id, if any
inferDefaultTags(taskId) ==
    Bind(seedTasks, LAMBDA seeds :
    LET hits == {i \in 1..Len(seeds) : seeds[i].id = taskId}
        seed == seeds[CHOOSE i \in hits : \A j \in hits : i <= j]
    IN  IF hits # {} /\ Len(seed.tags) > 0 THEN seed.tags ELSE <<DEFAULT_TAG>>)

\* The loop of normalizeTags and normalizeTaskTags: trims each value, skips
\* the empty ones and those whose lower-case form was seen before.
\* A variant that compares tags as written, not case-insensitively.
RECURSIVE DedupeTagsCaseSensitive(_, _, _, _)
DedupeTagsCaseSensitive(rawTags, i, tags, seen) ==
    IF i > Len(rawTags) THEN tags
    ELSE LET tag == Trim(JsString(Coalesce(rawTags[i], JStr(<<>>))))
         IN  IF tag = <<>> \/ tag \in seen
             THEN DedupeTagsCaseSensitive(rawTags, i + 1, tags, seen)
             ELSE DedupeTagsCaseSensitive(rawTags, i + 1, Append(tags, tag), seen \cup {tag})

RECURSIVE DedupeTags(_, _, _, _)
DedupeTags(rawTags, i, tags, seen) ==
    IF i > Len(rawTags) THEN tags
    ELSE LET tag == Trim(JsString(Coalesce(rawTags[i], JStr(<<>>))))
             key == ToLowerCase(tag)
         IN  IF tag = <<>> \/ key \in seen
             THEN DedupeTags(rawTags, i + 1, tags, seen)
             ELSE DedupeTags(rawTags, i + 1, Append(tags, tag), seen \cup {key})

\* A variant that returns the empty list where no tag is left.
normalizeTagsAllowingEmpty(inputTags, fallbackTaskId) ==
    LET rawTags ==
            IF inputTags.t = "arr" THEN inputTags.v
            ELSE IF IsNullish(inputTags) THEN StrValues(inferDefaultTags(fallbackTaskId))
            ELSE IF Includes(JsString(inputTags), ",")
                 THEN StrValues(Split(JsString(inputTags), ","))
            ELSE <<inputTags>>
    IN  DedupeTags(rawTags, 1, <<>>, {})

normalizeTags(inputTags, fallbackTaskId) ==
    LET rawTags ==
            IF inputTags.t = "arr" THEN inputTags.v
            ELSE IF IsNullish(inputTags) THEN StrValues(inferDefaultTags(fallbackTaskId))
            ELSE IF Includes(JsString(inputTags), ",")
                 THEN StrValues(Split(JsString(inputTags), ","))
            ELSE <<inputTags>>
    IN  Bind(DedupeTags(rawTags, 1, <<>>, {}), LAMBDA tags :
             IF Len(tags) > 0 THEN tags ELSE <<DEFAULT_TAG>>)

\* The browser's copy of the same normalisation; task is a JavaScript
\* object with the fields tags and tag.
normalizeTaskTags(task) ==
    LET rawTags ==
            IF task.tags.t = "arr" THEN task.tags.v
            ELSE IF JsTruthy(task.tag) THEN <<task.tag>>
            ELSE <<JStr(DEFAULT_TAG)>>
    IN  Bind(DedupeTags(rawTags, 1, <<>>, {}), LAMBDA tags :
             IF Len(tags) > 0 THEN tags ELSE <<DEFAULT_TAG>>)

SlugMaxLen == 64

SlugChars == Range(LowerCase) \cup Range(Digits)

IsSlugChar(c) == c \in SlugChars

\* .replace(/[^a-z0-9]+/g, "-"): every maximal run of other characters
\* becomes one hyphen, put where the run starts.
IsKept(c) == c # ""

ReplaceRuns(s) ==
    SelectSeq([i \in 1..Len(s) |->
                  IF IsSlugChar(s[i]) THEN s[i]
                  ELSE IF i > 1 /\ ~IsSlugChar(s[i - 1]) THEN ""
                  ELSE "-"], IsKept)

\* .replace(/^-+|-+$/g, "")
RECURSIVE FirstNonHyphenFrom(_, _)
FirstNonHyphenFrom(s, i) ==
    IF i > Len(s) \/ s[i] # "-" THEN i ELSE FirstNonHyphenFrom(s, i + 1)

RECURSIVE LastNonHyphenUpTo(_, _)
LastNonHyphenUpTo(s, i) ==
    IF i < 1 \/ s[i] # "-" THEN i ELSE LastNonHyphenUpTo(s, i - 1)

StripHyphens(s) == SubSeq(s, FirstNonHyphenFrom(s, 1), LastNonHyphenUpTo(s, Len(s)))

slugify(input) ==
    Bind(StripHyphens(ReplaceRuns(Trim(ToLowerCase(input)))), LAMBDA hyphenated :
    Bind(SubSeq(hyphenated, 1, IF Len(hyphenated) < SlugMaxLen
                               THEN Len(hyphenated) ELSE SlugMaxLen), LAMBDA sliced :
         IF sliced = <<>> THEN <<"t","a","s","k">> ELSE sliced))

\* The fields of a task object as the handlers build it; an absent field is
\* JUndef.
TaskFields == {"id", "title", "description", "tags", "tag", "done", "order",
               "createdAt", "updatedAt"}

EmptyObject == [f \in TaskFields |-> JUndef]

\* {...base, ...over} where over gives some of the fields
Spread(base, over) ==
    [f \in TaskFields |-> IF f \in DOMAIN over THEN over[f] ELSE base[f]]

\* normalizeTask(task); now is what new Date().toISOString() returns.
\* The result has id, title, description as strings, tags as a sequence of
\* strings, done as a boolean, order as an integer, and createdAt and
\* updatedAt as the JavaScript values the code keeps (any truthy value).
normalizeTask(task, now) ==
    LET id == JsString(task.id)
        title == Trim(JsString(Coalesce(task.title, JStr(<<"U","n","t","i","t","l","e","d">>))))
    IN  [id |-> id,
         title |-> IF title = <<>> THEN <<"U","n","t","i","t","l","e","d">> ELSE title,
         description |-> JsString(Coalesce(task.description, JStr(<<>>))),
         tags |-> normalizeTags(Coalesce(task.tags, task.tag), id),
         done |-> JsTruthy(task.done),
         order |-> IF task.order.t = "num" THEN task.order.v ELSE 0,
         createdAt |-> IF JsTruthy(task.createdAt) THEN task.createdAt ELSE JStr(now),
         updatedAt |-> IF JsTruthy(task.updatedAt) THEN task.updatedAt ELSE JStr(now)]

\* A normalised task as the JavaScript object the handlers spread.
TaskObject(task) ==
    [f \in TaskFields |->
        CASE f = "id" -> JStr(task.id)
          [] f = "title" -> JStr(task.title)
          [] f = "description" -> JStr(task.description)
          [] f = "tags" -> JArr(StrValues(task.tags))
          [] f = "tag" -> JUndef
          [] f = "done" -> JBool(task.done)
          [] f = "order" -> JNum(task.order)
          [] f = "createdAt" -> task.createdAt
          [] f = "updatedAt" -> task.updatedAt]

\* taskFilename(task): <id>--<slug of the title>.md
taskFilename(task) == task.id \o <<"-","-">> \o slugify(task.title) \o <<".","m","d">>

(***************************************************************************)
(* The frontmatter codec                                                   *)
(*                                                                         *)
(* JSON texts are sequences of characters.  The values are those of the    *)
(* model's JavaScript values: strings, integers, booleans, null and arrays *)
(* (no objects, no fractions).                                             *)
(***************************************************************************)
Quote == "\""
Backslash == "\\"

\* The characters JSON.stringify escapes in a string, with the letter that
\* follows the backslash.
RECURSIVE JsonEscape(_)
JsonEscape(s) ==
    IF s = <<>> THEN <<>>
    ELSE (CASE Head(s) = Quote -> <<Backslash, Quote>>
            [] Head(s) = Backslash -> <<Backslash, Backslash>>
            [] Head(s) = "\n" -> <<Backslash, "n">>
            [] Head(s) = "\t" -> <<Backslash, "t">>
            [] OTHER -> <<Head(s)>>) \o JsonEscape(Tail(s))

\* toFrontmatterValue(value) = JSON.stringify(value), as interpolated into
\* the line (`${undefined}` reads "undefined").
RECURSIVE toFrontmatterValue(_)
toFrontmatterValue(value) ==
    CASE value.t = "str" -> <<Quote>> \o JsonEscape(value.v) \o <<Quote>>
      [] value.t = "num" -> IntToStr(value.v)
      [] value.t = "bool" -> JsString(value)
      [] value.t = "null" -> <<"n","u","l","l">>
      [] value.t = "nan" -> <<"n","u","l","l">>
      [] value.t = "undef" -> <<"u","n","d","e","f","i","n","e","d">>
      [] value.t = "arr" ->
            <<"[">>
            \o Join([i \in 1..Len(value.v) |->
                        IF value.v[i].t = "undef" THEN <<"n","u","l","l">>
                        ELSE toFrontmatterValue(value.v[i])], <<",">>)
            \o <<"]">>

\* The name of each task field as it is written before the colon.
FieldKey ==
    [id |-> <<"i","d">>, title |-> <<"t","i","t","l","e">>,
     description |-> <<"d","e","s","c","r","i","p","t","i","o","n">>,
     tags |-> <<"t","a","g","s">>, tag |-> <<"t","a","g">>,
     done |-> <<"d","o","n","e">>, order |-> <<"o","r","d","e","r">>,
     createdAt |-> <<"c","r","e","a","t","e","d","A","t">>,
     updatedAt |-> <<"u","p","d","a","t","e","d","A","t">>]

FrontmatterLine(field, value) == FieldKey[field] \o <<":"," ">> \o toFrontmatterValue(value)

Fence == <<"-","-","-">>

\* taskToMarkdown(rawTask): the lines joined by "\n"
taskToMarkdown(rawTask, now) ==
    Bind(normalizeTask(rawTask, now), LAMBDA task :
    LET lines == << Fence,
                    FrontmatterLine("id", JStr(task.id)),
                    FrontmatterLine("title", JStr(task.title)),
                    FrontmatterLine("tags", JArr(StrValues(task.tags))),
                    FrontmatterLine("done", JBool(task.done)),
                    FrontmatterLine("order", JNum(task.order)),
                    FrontmatterLine("createdAt", task.createdAt),
                    FrontmatterLine("updatedAt", task.updatedAt),
                    Fence,
                    <<>>,
                    TrimEnd(task.description),
                    <<>> >>
    IN  Join(lines, <<"\n">>))

\* ---- JSON.parse ----
JsonWhiteSpace == {" ", "\t", "\n"}

RECURSIVE SkipWs(_, _)
SkipWs(s, i) == IF i <= Len(s) /\ s[i] \in JsonWhiteSpace THEN SkipWs(s, i + 1) ELSE i

ParseFail == [ok |-> FALSE, val |-> JUndef, next |-> 0]
Parsed(val, next) == [ok |-> TRUE, val |-> val, next |-> next]

StartsWithAt(s, i, word) ==
    /\ i + Len(word) - 1 <= Len(s)
    /\ \A k \in 1..Len(word) : s[i + k - 1] = word[k]

\* The characters after the opening quote up to the closing one.
RECURSIVE ParseString(_, _, _)
ParseString(s, i, acc) ==
    IF i > Len(s) THEN ParseFail
    ELSE IF s[i] = Quote THEN Parsed(JStr(acc), i + 1)
    ELSE IF s[i] \in {"\n", "\t"} THEN ParseFail
    ELSE IF s[i] = Backslash
         THEN IF i + 1 > Len(s) THEN ParseFail
              ELSE CASE s[i + 1] = Quote -> ParseString(s, i + 2, Append(acc, Quote))
                     [] s[i + 1] = Backslash -> ParseString(s, i + 2, Append(acc, Backslash))
                     [] s[i + 1] = "/" -> ParseString(s, i + 2, Append(acc, "/"))
                     [] s[i + 1] = "n" -> ParseString(s, i + 2, Append(acc, "\n"))
                     [] s[i + 1] = "t" -> ParseString(s, i + 2, Append(acc, "\t"))
                     [] OTHER -> ParseFail
    ELSE ParseString(s, i + 1, Append(acc, s[i]))

DigitValue(c) == (CHOOSE k \in 1..10 : Digits[k] = c) - 1

RECURSIVE ParseDigits(_, _, _)
ParseDigits(s, i, acc) ==
    IF i <= Len(s) /\ s[i] \in Range(Digits)
    THEN ParseDigits(s, i + 1, 10 * acc + DigitValue(s[i]))
    ELSE Parsed(JNum(acc), i)

\* An integer: an optional minus, then 0 or digits that do not start with 0.
ParseNumber(s, i) ==
    LET neg == i <= Len(s) /\ s[i] = "-"
        d == IF neg THEN i + 1 ELSE i
    IN  IF d > Len(s) \/ s[d] \notin Range(Digits) THEN ParseFail
        ELSE IF s[d] = "0" /\ d + 1 <= Len(s) /\ s[d + 1] \in Range(Digits) THEN ParseFail
        ELSE LET r == ParseDigits(s, d, 0)
             IN  IF r.next <= Len(s) /\ s[r.next] \in {".", "e", "E"} THEN ParseFail
                 ELSE Parsed(JNum(IF neg THEN 0 - r.val.v ELSE r.val.v), r.next)

RECURSIVE ParseValue(_, _)
RECURSIVE ParseElements(_, _, _)

ParseValue(s, i) ==
    IF i > Len(s) THEN ParseFail
    ELSE CASE s[i] = Quote -> ParseString(s, i + 1, <<>>)
           [] s[i] = "[" ->
                 Bind(SkipWs(s, i + 1), LAMBDA j :
                      IF j <= Len(s) /\ s[j] = "]" THEN Parsed(JArr(<<>>), j + 1)
                      ELSE ParseElements(s, j, <<>>))
           [] StartsWithAt(s, i, <<"t","r","u","e">>) -> Parsed(JBool(TRUE), i + 4)
           [] StartsWithAt(s, i, <<"f","a","l","s","e">>) -> Parsed(JBool(FALSE), i + 5)
           [] StartsWithAt(s, i, <<"n","u","l","l">>) -> Parsed(JNull, i + 4)
           [] OTHER -> ParseNumber(s, i)

\* The elements of an array from position i, which holds an element.
ParseElements(s, i, acc) ==
    Bind(ParseValue(s, i), LAMBDA r :
         IF ~r.ok THEN ParseFail
         ELSE Bind(SkipWs(s, r.next), LAMBDA j :
                   IF j > Len(s) THEN ParseFail
                   ELSE IF s[j] = "]" THEN Parsed(JArr(Append(acc, r.val)), j + 1)
                   ELSE IF s[j] = ","
                        THEN ParseElements(s, SkipWs(s, j + 1), Append(acc, r.val))
                   ELSE ParseFail))

\* JSON.parse(text): ok is FALSE where it throws.
JsonParse(text) ==
    Bind(ParseValue(text, SkipWs(text, 1)), LAMBDA r :
         IF r.ok /\ SkipWs(text, r.next) > Len(text) THEN r ELSE ParseFail)

\* ---- parseMarkdownTask ----
\* The first position at or after i where "\n---" starts; 0 when there is none.
RECURSIVE ClosingFence(_, _)
ClosingFence(content, i) ==
    IF i + 3 > Len(content) THEN 0
    ELSE IF StartsWithAt(content, i, <<"\n">> \o Fence) THEN i
    ELSE ClosingFence(content, i + 1)

\* The try/catch of the loop: the parsed value, or the raw text as a string.
FrontmatterValue(rawValue) ==
    Bind(JsonParse(rawValue), LAMBDA parsed :
         IF parsed.ok THEN parsed.val ELSE JStr(rawValue))

\* The loop over the lines of the block: meta[key] = value, a later line of
\* the same key replacing an earlier one.  Keys that name no task field are
\* dropped here, since normalizeTask reads none of them.
RECURSIVE ReadMeta(_, _, _)
ReadMeta(lines, i, meta) ==
    IF i > Len(lines) THEN meta
    ELSE Bind(lines[i], LAMBDA line :
         Bind(IndexOf(line, ":"), LAMBDA separatorIndex :
         LET key == Trim(SubSeq(line, 1, separatorIndex))
             rawValue == Trim(SubSeq(line, separatorIndex + 2, Len(line)))
         IN  IF Trim(line) = <<>> \/ separatorIndex <= 0 THEN ReadMeta(lines, i + 1, meta)
             ELSE ReadMeta(lines, i + 1,
                           [f \in TaskFields |->
                               IF FieldKey[f] = key THEN FrontmatterValue(rawValue)
                               ELSE meta[f]])))

NoMatch == [ok |-> FALSE]

\* parseMarkdownTask(content): ok is FALSE where it throws "Missing
\* frontmatter block."; the regular expression is
\* /^---\n([\s\S]*?)\n---\n?([\s\S]*)$/.
parseMarkdownTask(content, now) ==
    Bind(ClosingFence(content, 5), LAMBDA close :
         IF ~StartsWithAt(content, 1, Fence \o <<"\n">>) \/ close = 0 THEN NoMatch
         ELSE LET metaText == SubSeq(content, 5, close - 1)
                  afterFence == close + 4
                  bodyStart == IF afterFence <= Len(content) /\ content[afterFence] = "\n"
                               THEN afterFence + 1 ELSE afterFence
                  body == SubSeq(content, bodyStart, Len(content))
                  meta == ReadMeta(Split(metaText, "\n"), 1, EmptyObject)
              IN  [ok |-> TRUE,
                   task |-> normalizeTask(Spread(meta, [description |-> JStr(Trim(body))]),
                                          now)])

(***************************************************************************)
(* The task directory and the logbook file                                 *)
(*                                                                         *)
(* A directory is a function from file names to file contents.  The        *)
(* content of a task file is kept as the document the regular expression   *)
(* of parseMarkdownTask splits it into: whether the frontmatter fences are *)
(* there, the value each frontmatter line decodes to, and the text after   *)
(* the closing fence.  SpecCodec checks this document against the          *)
(* character-level text (CodecDocumentAgrees).                             *)
(***************************************************************************)

\* new Date().toISOString() at clock value ms: a string of fixed width
\* whose order as a string is the order of time.
toISOString(ms) == <<Digits[((ms \div 10) % 10) + 1], Digits[(ms % 10) + 1]>>

\* The characters of the model in code-unit order.
CharOrder ==
    <<"\t", "\n", " ", "!", "\"", ",", "-", ".", "/">> \o Digits \o <<":">>
    \o UpperCase \o <<"[", "\\", "]">> \o LowerCase

RankOf == [c \in Range(CharOrder) |-> CHOOSE i \in 1..Len(CharOrder) : CharOrder[i] = c]

CharRank(c) == RankOf[c]

\* a.localeCompare(b) for strings of the model's characters: negative,
\* zero or positive.
RECURSIVE CompareFrom(_, _, _)
CompareFrom(a, b, i) ==
    IF i > Len(a) /\ i > Len(b) THEN 0
    ELSE IF i > Len(a) THEN -1
    ELSE IF i > Len(b) THEN 1
    ELSE IF a[i] = b[i] THEN CompareFrom(a, b, i + 1)
    ELSE IF CharRank(a[i]) < CharRank(b[i]) THEN -1 ELSE 1

localeCompare(a, b) == CompareFrom(a, b, 1)

\* readdir(TASKS_DIR): the names of the directory; the order is the file
\* system's, taken here to be ascending by name.
InsertName(sorted, name) ==
    LET p == Cardinality({i \in 1..Len(sorted) : localeCompare(sorted[i], name) < 0})
    IN  SubSeq(sorted, 1, p) \o <<name>> \o SubSeq(sorted, p + 1, Len(sorted))

RECURSIVE SortedNames(_, _)
SortedNames(names, sorted) ==
    IF names = {} THEN sorted
    ELSE Bind(CHOOSE name \in names : TRUE, LAMBDA name :
              SortedNames(names \ {name}, InsertName(sorted, name)))

readdir(dir) == SortedNames(DOMAIN dir, <<>>)

\* name.endsWith(".md")
EndsWithMd(name) ==
    Len(name) >= 3 /\ SubSeq(name, Len(name) - 2, Len(name)) = <<".","m","d">>

\* writeFile(path, content) and rm(path) on a directory
writeFile(dir, name, content) ==
    [n \in DOMAIN dir \cup {name} |-> IF n = name THEN content ELSE dir[n]]

rm(dir, name) == [n \in DOMAIN dir \ {name} |-> dir[n]]

\* The document taskToMarkdown writes: the seven frontmatter lines, and
\* after the closing fence an empty line, the description without its
\* trailing white space, and a line end.
markdownDocument(rawTask, now) ==
    Bind(normalizeTask(rawTask, now), LAMBDA task :
        [fenced |-> TRUE,
         meta |-> Spread(EmptyObject,
                         [id |-> JStr(task.id), title |-> JStr(task.title),
                          tags |-> JArr(StrValues(task.tags)), done |-> JBool(task.done),
                          order |-> JNum(task.order), createdAt |-> task.createdAt,
                          updatedAt |-> task.updatedAt]),
         body |-> <<"\n">> \o TrimEnd(task.description) \o <<"\n">>])

\* parseMarkdownTask on a document: it throws without the fences, and else
\* normalises the frontmatter values with the trimmed body as description.
parseDocument(doc, now) ==
    IF ~doc.fenced THEN NoMatch
    ELSE [ok |-> TRUE,
          task |-> normalizeTask(Spread(doc.meta, [description |-> JStr(Trim(doc.body))]), now)]

\* A variant of CompareRecords that compares the orders alone.
CompareRecordsByOrderAlone(a, b) == a.task.order - b.task.order

\* records.sort comparator: by order, then by createdAt as strings
CompareRecords(a, b) ==
    IF a.task.order # b.task.order THEN a.task.order - b.task.order
    ELSE localeCompare(JsString(a.task.createdAt), JsString(b.task.createdAt))

\* Array.prototype.sort is stable: a record goes after every record that
\* does not compare greater.
InsertRecord(sorted, rec) ==
    LET p == Cardinality({i \in 1..Len(sorted) : CompareRecords(sorted[i], rec) <= 0})
    IN  SubSeq(sorted, 1, p) \o <<rec>> \o SubSeq(sorted, p + 1, Len(sorted))

RECURSIVE SortRecords(_, _, _)
SortRecords(records, i, sorted) ==
    IF i > Len(records) THEN sorted
    ELSE SortRecords(records, i + 1, InsertRecord(sorted, records[i]))

\* The loop of readAllTaskRecords: a file that fails to parse is skipped.
IsParsed(record) == record.ok

ReadRecords(dir, names, now) ==
    Bind(SelectSeq([i \in 1..Len(names) |->
                       Bind(parseDocument(dir[names[i]], now), LAMBDA parsed :
                            IF parsed.ok
                            THEN [ok |-> TRUE, fileName |-> names[i], task |-> parsed.task]
                            ELSE [ok |-> FALSE])], IsParsed),
         LAMBDA read : [i \in 1..Len(read) |->
                           [fileName |-> read[i].fileName, task |-> read[i].task]])

readAllTaskRecords(dir, now) ==
    LET markdownFiles == SelectSeq(readdir(dir), EndsWithMd)
    IN  SortRecords(ReadRecords(dir, markdownFiles, now), 1, <<>>)

NoFile == <<>>

\* A variant of writeTask that leaves the previous file where it is.
writeTaskKeepingPrevious(dir, task, previousFileName, now) ==
    Bind(normalizeTask(task, now), LAMBDA normalized :
    Bind(taskFilename(normalized), LAMBDA nextFileName :
        [dir |-> writeFile(dir, nextFileName, markdownDocument(TaskObject(normalized), now)),
         record |-> [fileName |-> nextFileName, task |-> normalized]]))

\* A variant of writeTask that removes the previous file whatever its name.
writeTaskAlwaysRemoving(dir, task, previousFileName, now) ==
    Bind(normalizeTask(task, now), LAMBDA normalized :
    Bind(taskFilename(normalized), LAMBDA nextFileName :
    Bind(writeFile(dir, nextFileName, markdownDocument(TaskObject(normalized), now)),
         LAMBDA written :
        [dir |-> IF previousFileName # NoFile THEN rm(written, previousFileName)
                 ELSE written,
         record |-> [fileName |-> nextFileName, task |-> normalized]])))

\* writeTask(task, previousFileName): the directory afterwards and the
\* record returned.  task is a JavaScript object.
writeTask(dir, task, previousFileName, now) ==
    Bind(normalizeTask(task, now), LAMBDA normalized :
    Bind(taskFilename(normalized), LAMBDA nextFileName :
    Bind(writeFile(dir, nextFileName, markdownDocument(TaskObject(normalized), now)),
         LAMBDA written :
        [dir |-> IF previousFileName # NoFile /\ previousFileName # nextFileName
                 THEN rm(written, previousFileName)
                 ELSE written,
         record |-> [fileName |-> nextFileName, task |-> normalized]])))

\* A seed task as the object ensureSeedTasks writes.
SeedObject(seed, now) ==
    Spread(EmptyObject,
           [id |-> JStr(seed.id), title |-> JStr(seed.title),
            description |-> JStr(seed.description), tags |-> JArr(StrValues(seed.tags)),
            done |-> JBool(seed.done), order |-> JNum(seed.order),
            createdAt |-> JStr(now), updatedAt |-> JStr(now)])

RECURSIVE WriteSeeds(_, _, _)
WriteSeeds(dir, i, now) ==
    Bind(seedTasks, LAMBDA seeds :
         IF i > Len(seeds) THEN dir
         ELSE WriteSeeds(writeTask(dir, SeedObject(seeds[i], now), NoFile, now).dir,
                         i + 1, now))

\* ensureSeedTasks(): a directory without any .md file gets the seed tasks.
ensureSeedTasks(dir, now) ==
    IF \E name \in DOMAIN dir : EndsWithMd(name) THEN dir ELSE WriteSeeds(dir, 1, now)

\* getTaskRecords(): the directory afterwards and the records read from it
getTaskRecords(dir, now) ==
    Bind(ensureSeedTasks(dir, now), LAMBDA seeded :
        [dir |-> seeded, records |-> readAllTaskRecords(seeded, now)])

\* records.find((record) => record.task.id === taskId) ?? null
NoRecord == [fileName |-> NoFile]

FindRecord(records, taskId) ==
    IF \E i \in 1..Len(records) : records[i].task.id = taskId
    THEN records[CHOOSE i \in 1..Len(records) :
                    /\ records[i].task.id = taskId
                    /\ \A j \in 1..(i - 1) : records[j].task.id # taskId]
    ELSE NoRecord

\* A variant that draws the identifiers the seed tasks have.
SeedLikeUUID(n) == <<"t">> \o NatToStr(n)

\* randomUUID(): the n-th identifier drawn; no two draws agree.
randomUUID(n) == <<"u">> \o NatToStr(n)

\* A variant of appendLogEntry that writes the new line before the others.
appendLogEntryAtFront(log, drawn, type, data, now) ==
    <<[id |-> randomUUID(drawn + 1), type |-> type, createdAt |-> now, data |-> data]>> \o log

\* A variant of appendLogEntry that writes the new line alone.
appendLogEntryOverwriting(log, drawn, type, data, now) ==
    <<[id |-> randomUUID(drawn + 1), type |-> type, createdAt |-> now, data |-> data]>>

\* appendLogEntry(type, data): reads the log file and writes it back with
\* one more line.  The log is the sequence of the entries of its lines.
appendLogEntry(log, drawn, type, data, now) ==
    Append(log, [id |-> randomUUID(drawn + 1), type |-> type, createdAt |-> now, data |-> data])

TasksOf(records) == [i \in 1..Len(records) |-> records[i].task]

(***************************************************************************)
(* The request handlers                                                    *)
(*                                                                         *)
(* A handler takes the directory, the log, the number of UUIDs drawn so    *)
(* far, its request and the time, and yields the three afterwards together *)
(* with the status and the body it sends.  A request body is an object     *)
(* over BodyFields; a field the body does not have is JUndef.              *)
(***************************************************************************)
BodyFields == {"title", "description", "tags", "tag", "done", "order", "taskIds"}

EmptyBody == [f \in BodyFields |-> JUndef]

Body(fields) == [f \in BodyFields |-> IF f \in DOMAIN fields THEN fields[f] ELSE JUndef]

\* "field" in body
HasField(body, field) == body[field].t # "undef"

Reply(dir, log, drawn, status, body) ==
    [dir |-> dir, log |-> log, drawn |-> drawn, status |-> status, body |-> body]

\* Number(x) for the values of the model
JsNumber(x) ==
    Bind(Trim(JsString(x)), LAMBDA text :
    Bind(ParseNumber(text, 1), LAMBDA parsed :
        CASE x.t = "num" -> x
          [] x.t = "bool" -> JNum(IF x.v THEN 1 ELSE 0)
          [] x.t = "null" -> JNum(0)
          [] x.t \in {"undef", "nan"} -> JNaN
          [] OTHER -> IF text = <<>> THEN JNum(0)
                      ELSE IF parsed.ok /\ parsed.next = Len(text) + 1 THEN parsed.val
                      ELSE JNaN))

handleListTasks(dir, log, drawn, now) ==
    Bind(getTaskRecords(dir, now), LAMBDA got :
         Reply(got.dir, log, drawn, 200, [tasks |-> TasksOf(got.records)]))

\* readLogbookEntries(): the entries, latest createdAt first; the sort is
\* stable, so entries of one createdAt stay in file order.
InsertEntry(sorted, entry) ==
    LET p == Cardinality({i \in 1..Len(sorted) :
                            localeCompare(entry.createdAt, sorted[i].createdAt) <= 0})
    IN  SubSeq(sorted, 1, p) \o <<entry>> \o SubSeq(sorted, p + 1, Len(sorted))

RECURSIVE SortEntries(_, _, _)
SortEntries(entries, i, sorted) ==
    IF i > Len(entries) THEN sorted
    ELSE SortEntries(entries, i + 1, InsertEntry(sorted, entries[i]))

readLogbookEntries(log) == SortEntries(log, 1, <<>>)

handleListLogbook(dir, log, drawn, now) ==
    Reply(dir, log, drawn, 200, [entries |-> readLogbookEntries(log)])

handleClearLogbook(dir, log, drawn, now) ==
    Reply(dir, <<>>, drawn, 200, [ok |-> TRUE, entries |-> <<>>])

\* A variant of handleCreateTask that does not look at the title.
handleCreateTaskUnvalidated(dir, log, drawn, body, now) ==
    Bind(Trim(JsString(Coalesce(body.title, JStr(<<>>)))), LAMBDA title :
        Bind(getTaskRecords(dir, now), LAMBDA got :
        LET task == normalizeTask(
                        Spread(EmptyObject,
                               [id |-> JStr(randomUUID(drawn + 1)),
                                title |-> JStr(title),
                                description |->
                                    JStr(JsString(Coalesce(body.description, JStr(<<>>)))),
                                tags |-> IF body.tags.t = "arr" THEN body.tags
                                         ELSE IF HasField(body, "tag") THEN JArr(<<body.tag>>)
                                         ELSE JArr(<<JStr(DEFAULT_TAG)>>),
                                done |-> JBool(JsTruthy(body.done)),
                                order |-> JNum(Len(got.records)),
                                createdAt |-> JStr(now),
                                updatedAt |-> JStr(now)]), now)
        IN  Bind(writeTask(got.dir, TaskObject(task), NoFile, now), LAMBDA saved :
                 Reply(saved.dir, log, drawn + 1, 201, [task |-> saved.record.task]))))

handleCreateTask(dir, log, drawn, body, now) ==
    Bind(Trim(JsString(Coalesce(body.title, JStr(<<>>)))), LAMBDA title :
        IF title = <<>> THEN Reply(dir, log, drawn, 400, [error |-> "Title is required."])
        ELSE
        Bind(getTaskRecords(dir, now), LAMBDA got :
        LET order == Len(got.records)
            task == normalizeTask(
                        Spread(EmptyObject,
                               [id |-> JStr(randomUUID(drawn + 1)),
                                title |-> JStr(title),
                                description |->
                                    JStr(JsString(Coalesce(body.description, JStr(<<>>)))),
                                tags |-> IF body.tags.t = "arr" THEN body.tags
                                         ELSE IF HasField(body, "tag") THEN JArr(<<body.tag>>)
                                         ELSE JArr(<<JStr(DEFAULT_TAG)>>),
                                done |-> JBool(JsTruthy(body.done)),
                                order |-> JNum(order),
                                createdAt |-> JStr(now),
                                updatedAt |-> JStr(now)]), now)
        IN  Bind(writeTask(got.dir, TaskObject(task), NoFile, now), LAMBDA saved :
                 Reply(saved.dir, log, drawn + 1, 201, [task |-> saved.record.task]))))

\* A variant of UpdatedObject that stamps createdAt as it stamps updatedAt.
UpdatedObjectStampingCreated(task, body, nextTitle, now) ==
    LET withDone == IF HasField(body, "done")
                    THEN [done |-> JBool(JsTruthy(body.done))] ELSE <<>>
        withDescription == IF HasField(body, "description")
                           THEN [description |-> JStr(JsString(Coalesce(body.description,
                                                                         JStr(<<>>))))]
                           ELSE <<>>
        withTags == IF HasField(body, "tags") THEN [tags |-> body.tags]
                    ELSE IF HasField(body, "tag") THEN [tags |-> JArr(<<body.tag>>)]
                    ELSE <<>>
        withOrder == IF HasField(body, "order") THEN [order |-> JsNumber(body.order)] ELSE <<>>
    IN  Spread(Spread(Spread(Spread(Spread(TaskObject(task), withDone), withDescription),
                             withTags), withOrder),
               [title |-> JStr(nextTitle), createdAt |-> JStr(now), updatedAt |-> JStr(now)])

\* The object handleUpdateTask passes to normalizeTask: the stored task
\* overlaid with the fields the body has.
UpdatedObject(task, body, nextTitle, now) ==
    LET withDone == IF HasField(body, "done")
                    THEN [done |-> JBool(JsTruthy(body.done))] ELSE <<>>
        withDescription == IF HasField(body, "description")
                           THEN [description |-> JStr(JsString(Coalesce(body.description,
                                                                         JStr(<<>>))))]
                           ELSE <<>>
        withTags == IF HasField(body, "tags") THEN [tags |-> body.tags]
                    ELSE IF HasField(body, "tag") THEN [tags |-> JArr(<<body.tag>>)]
                    ELSE <<>>
        withOrder == IF HasField(body, "order") THEN [order |-> JsNumber(body.order)] ELSE <<>>
    IN  Spread(Spread(Spread(Spread(Spread(TaskObject(task), withDone), withDescription),
                             withTags), withOrder),
               [title |-> JStr(nextTitle), updatedAt |-> JStr(now)])

\* A variant of doneToggled: done was sent, whatever its value.
doneSent(body, saved, record) == HasField(body, "done")

\* A variant of doneToggled: also true of every request that sends a title.
doneToggledOrTitleSent(body, saved, record) ==
    \/ HasField(body, "title")
    \/ (HasField(body, "done") /\ saved.record.task.done # record.task.done)

\* "done" in body && saved.task.done !== record.task.done
doneToggled(body, saved, record) ==
    HasField(body, "done") /\ saved.record.task.done # record.task.done

handleUpdateTask(dir, log, drawn, taskId, body, now) ==
    Bind(getTaskRecords(dir, now), LAMBDA got :
    Bind(FindRecord(got.records, taskId), LAMBDA record :
        IF record.fileName = NoFile
        THEN Reply(got.dir, log, drawn, 404, [error |-> "Task not found."])
        ELSE
        Bind(IF ~HasField(body, "title") THEN record.task.title
             ELSE Trim(JsString(body.title)), LAMBDA nextTitle :
            IF nextTitle = <<>>
            THEN Reply(got.dir, log, drawn, 400, [error |-> "Title is required."])
            ELSE
            Bind(normalizeTask(UpdatedObject(record.task, body, nextTitle, now), now),
                 LAMBDA updatedTask :
            Bind(writeTask(got.dir, TaskObject(updatedTask), record.fileName, now),
                 LAMBDA saved :
            Bind(doneToggled(body, saved, record), LAMBDA toggled :
                Reply(saved.dir,
                      IF toggled
                      THEN appendLogEntry(log, drawn,
                               IF saved.record.task.done THEN "task_completed"
                               ELSE "task_reopened",
                               [taskId |-> saved.record.task.id,
                                title |-> saved.record.task.title,
                                task |-> saved.record.task], now)
                      ELSE log,
                      IF toggled THEN drawn + 1 ELSE drawn,
                      200, [task |-> saved.record.task])))))))

handleDeleteTask(dir, log, drawn, taskId, now) ==
    Bind(getTaskRecords(dir, now), LAMBDA got :
    Bind(FindRecord(got.records, taskId), LAMBDA record :
        IF record.fileName = NoFile
        THEN Reply(got.dir, log, drawn, 404, [error |-> "Task not found."])
        ELSE Reply(rm(got.dir, record.fileName),
                   appendLogEntry(log, drawn, "task_deleted",
                                  [taskId |-> record.task.id, title |-> record.task.title,
                                   task |-> record.task], now),
                   drawn + 1, 200, [ok |-> TRUE])))

IsDone(record) == record.task.done

RECURSIVE RemoveFiles(_, _, _)
RemoveFiles(dir, records, i) ==
    IF i > Len(records) THEN dir
    ELSE RemoveFiles(rm(dir, records[i].fileName), records, i + 1)

handleDeleteCompletedTasks(dir, log, drawn, now) ==
    Bind(getTaskRecords(dir, now), LAMBDA got :
    Bind(SelectSeq(got.records, IsDone), LAMBDA completed :
    Bind(getTaskRecords(RemoveFiles(got.dir, completed, 1), now), LAMBDA remaining :
    LET logged == Len(completed) > 0
    IN  Reply(remaining.dir,
              IF logged
              THEN appendLogEntry(log, drawn, "completed_tasks_deleted",
                                  [count |-> Len(completed), tasks |-> TasksOf(completed)], now)
              ELSE log,
              IF logged THEN drawn + 1 ELSE drawn,
              200, [deletedCount |-> Len(completed),
                    tasks |-> TasksOf(remaining.records)]))))

\* A variant of TagsWithout that compares the tags as written.
TagsWithoutAsWritten(tags, tagToDelete) ==
    SelectSeq(tags, LAMBDA tag : tag # tagToDelete)

\* The tags of a task other than tagToDelete, compared in lower case.
RECURSIVE TagsWithout(_, _)
TagsWithout(tags, tagToDelete) ==
    IF tags = <<>> THEN <<>>
    ELSE (IF ToLowerCase(Head(tags)) # ToLowerCase(tagToDelete) THEN <<Head(tags)>> ELSE <<>>)
         \o TagsWithout(Tail(tags), tagToDelete)

\* A variant of DeleteTagLoop that takes every task for changed.
RECURSIVE DeleteTagLoopChangingAll(_, _, _, _, _)
DeleteTagLoopChangingAll(records, i, tagToDelete, acc, now) ==
    IF i > Len(records) THEN acc
    ELSE
    Bind(records[i], LAMBDA record :
    Bind(TagsWithout(record.task.tags, tagToDelete), LAMBDA nextTags :
        Bind(normalizeTask(Spread(TaskObject(record.task),
                                  [tags |-> JArr(StrValues(nextTags)),
                                   updatedAt |-> JStr(now)]), now), LAMBDA updatedTask :
        Bind(writeTask(acc.dir, TaskObject(updatedTask), record.fileName, now), LAMBDA saved :
            DeleteTagLoopChangingAll(records, i + 1, tagToDelete,
                 [dir |-> saved.dir,
                  log |-> appendLogEntry(acc.log, acc.drawn, "tag_removed_from_task",
                                         [tag |-> tagToDelete, taskId |-> updatedTask.id,
                                          title |-> updatedTask.title,
                                          beforeTags |-> record.task.tags,
                                          afterTags |-> updatedTask.tags], now),
                  drawn |-> acc.drawn + 1,
                  changedCount |-> acc.changedCount + 1], now)))))

\* The loop of handleDeleteTagEverywhere over the records, from record i on;
\* acc holds the directory, the log, the UUIDs drawn and changedCount.
RECURSIVE DeleteTagLoop(_, _, _, _, _)
DeleteTagLoop(records, i, tagToDelete, acc, now) ==
    IF i > Len(records) THEN acc
    ELSE
    Bind(records[i], LAMBDA record :
    Bind(TagsWithout(record.task.tags, tagToDelete), LAMBDA nextTags :
        IF Len(nextTags) = Len(record.task.tags)
        THEN DeleteTagLoop(records, i + 1, tagToDelete, acc, now)
        ELSE
        Bind(normalizeTask(Spread(TaskObject(record.task),
                                  [tags |-> JArr(StrValues(nextTags)),
                                   updatedAt |-> JStr(now)]), now), LAMBDA updatedTask :
        Bind(writeTask(acc.dir, TaskObject(updatedTask), record.fileName, now), LAMBDA saved :
            DeleteTagLoop(records, i + 1, tagToDelete,
                 [dir |-> saved.dir,
                  log |-> appendLogEntry(acc.log, acc.drawn, "tag_removed_from_task",
                                         [tag |-> tagToDelete, taskId |-> updatedTask.id,
                                          title |-> updatedTask.title,
                                          beforeTags |-> record.task.tags,
                                          afterTags |-> updatedTask.tags], now),
                  drawn |-> acc.drawn + 1,
                  changedCount |-> acc.changedCount + 1], now)))))

handleDeleteTagEverywhere(dir, log, drawn, body, now) ==
    Bind(Trim(JsString(Coalesce(body.tag, JStr(<<>>)))), LAMBDA tagToDelete :
        IF tagToDelete = <<>> THEN Reply(dir, log, drawn, 400, [error |-> "Tag is required."])
        ELSE
        Bind(getTaskRecords(dir, now), LAMBDA got :
        Bind(DeleteTagLoop(got.records, 1, tagToDelete,
                           [dir |-> got.dir, log |-> log, drawn |-> drawn,
                            changedCount |-> 0], now), LAMBDA done :
        Bind(getTaskRecords(done.dir, now), LAMBDA nextRecords :
        LET summarised == done.changedCount > 0
        IN  Reply(nextRecords.dir,
                  IF summarised
                  THEN appendLogEntry(done.log, done.drawn, "tag_deleted_everywhere",
                                      [tag |-> tagToDelete,
                                       changedCount |-> done.changedCount], now)
                  ELSE done.log,
                  IF summarised THEN done.drawn + 1 ELSE done.drawn,
                  200, [deletedTag |-> tagToDelete, changedCount |-> done.changedCount,
                        tasks |-> TasksOf(nextRecords.records)])))))

\* byId.get(id): new Map(pairs) keeps the last record of an id.
HasId(records, id) == \E i \in 1..Len(records) : records[i].task.id = id

LastRecordOf(records, id) ==
    records[CHOOSE i \in 1..Len(records) :
               /\ records[i].task.id = id
               /\ \A j \in (i + 1)..Len(records) : records[j].task.id # id]

\* A variant of KnownOnce that keeps an id each time it is named.
RECURSIVE KnownOnceKeepingRepeats(_, _, _, _)
KnownOnceKeepingRepeats(taskIds, i, records, orderedIds) ==
    IF i > Len(taskIds) THEN orderedIds
    ELSE IF /\ taskIds[i].t = "str"
            /\ HasId(records, taskIds[i].v)
         THEN KnownOnceKeepingRepeats(taskIds, i + 1, records,
                                      Append(orderedIds, taskIds[i].v))
         ELSE KnownOnceKeepingRepeats(taskIds, i + 1, records, orderedIds)

\* The first loop of handleReorderTasks: the incoming ids that are strings,
\* name a record and were not seen before, in order.
RECURSIVE KnownOnce(_, _, _, _)
KnownOnce(taskIds, i, records, orderedIds) ==
    IF i > Len(taskIds) THEN orderedIds
    ELSE IF /\ taskIds[i].t = "str"
            /\ HasId(records, taskIds[i].v)
            /\ taskIds[i].v \notin Range(orderedIds)
         THEN KnownOnce(taskIds, i + 1, records, Append(orderedIds, taskIds[i].v))
         ELSE KnownOnce(taskIds, i + 1, records, orderedIds)

\* The second loop: the ids of the records not seen, in the records' order.
RECURSIVE AppendMissing(_, _, _, _)
AppendMissing(records, i, seen, orderedIds) ==
    IF i > Len(records) THEN orderedIds
    ELSE IF records[i].task.id \notin seen
         THEN AppendMissing(records, i + 1, seen, Append(orderedIds, records[i].task.id))
         ELSE AppendMissing(records, i + 1, seen, orderedIds)

\* The third loop: every task is written with its index as order.
RECURSIVE WriteOrders(_, _, _, _, _)
WriteOrders(dir, records, orderedIds, i, now) ==
    IF i > Len(orderedIds) THEN dir
    ELSE Bind(LastRecordOf(records, orderedIds[i]), LAMBDA record :
         LET updatedTask == Spread(TaskObject(record.task),
                                   [order |-> JNum(i - 1), updatedAt |-> JStr(now)])
         IN  WriteOrders(writeTask(dir, updatedTask, record.fileName, now).dir,
                         records, orderedIds, i + 1, now))

handleReorderTasks(dir, log, drawn, body, now) ==
    IF body.taskIds.t # "arr"
    THEN Reply(dir, log, drawn, 400, [error |-> "taskIds must be an array."])
    ELSE
    Bind(getTaskRecords(dir, now), LAMBDA got :
    Bind(KnownOnce(body.taskIds.v, 1, got.records, <<>>), LAMBDA known :
    Bind(AppendMissing(got.records, 1, Range(known), known), LAMBDA orderedIds :
    Bind(getTaskRecords(WriteOrders(got.dir, got.records, orderedIds, 1, now), now),
         LAMBDA nextRecords :
         Reply(nextRecords.dir, log, drawn, 200, [tasks |-> TasksOf(nextRecords.records)])))))

(***************************************************************************)
(* The store as a state machine: requests handled one at a time            *)
(***************************************************************************)
MaxRequests == 2

EmptyDir == [n \in {} |-> NoMatch]

\* No handler is between two of its steps.
NoCall == [op |-> "none"]

\* The state start() leaves: the two directories made, the log file empty.
StoreIdle ==
    /\ files = EmptyDir
    /\ logbook = <<>>
    /\ uuids = 0
    /\ clock = 1
    /\ nreq = 0
    /\ last = [op |-> "start"]
    /\ call = NoCall

Init ==
    /\ StoreIdle
    /\ arg = <<>>
    /\ res = NoResult

T1 == <<"t","1">>
T2 == <<"t","2">>
T3 == <<"t","3">>
T4 == <<"t","4">>
T5 == <<"t","5">>
UnknownId == <<"z","z">>

Blank == <<" "," ">>
BuyMilk == <<"B","u","y"," ","m","i","l","k">>
PayMarco == <<"P","a","y"," ","M","a","r","c","o","!">>
RunShouted == <<"R","U","N"," ","8","k","m"," "," ","e","a","s","y">>
Home == <<"H","o","m","e">>
Work == <<"W","o","r","k">>

\* The ids requests may name: three seed tasks, an id no task has, and
\* every UUID drawn so far.
DrawnIds == {randomUUID(k) : k \in 1..uuids}

CreateBodies ==
    { Body([title |-> JStr(BuyMilk)]),
      Body([title |-> JStr(Blank)]),
      EmptyBody,
      Body([title |-> JStr(<<" ","b"," ">>),
            description |-> JStr(<<" ","x"," ">>),
            tags |-> JArr(<<JStr(<<" ","W","o","r","k">>), JStr(<<"w","o","r","k">>),
                            JStr(<<>>), JNull>>),
            done |-> JBool(TRUE)]) }

UpdateRequests ==
    { [id |-> T3, body |-> Body([done |-> JBool(FALSE)])],
      [id |-> T2, body |-> Body([done |-> JBool(TRUE)])],
      [id |-> T2, body |-> Body([done |-> JBool(FALSE)])],
      [id |-> T2, body |-> Body([title |-> JStr(PayMarco)])],
      [id |-> T2, body |-> Body([title |-> JStr(Blank)])],
      [id |-> T2, body |-> Body([title |-> JStr(<<>>)])],
      [id |-> UnknownId, body |-> Body([done |-> JBool(TRUE)])],
      [id |-> T2, body |-> Body([tags |-> JArr(<<JStr(Home), JStr(<<" ","h","o","m","e">>),
                                                  JStr(DEFAULT_TAG)>>)])],
      [id |-> T4, body |-> Body([tags |-> JArr(<<>>)])],
      [id |-> T3, body |-> Body([title |-> JStr(RunShouted), done |-> JBool(TRUE),
                                  description |-> JStr(<<" ","x">>),
                                  order |-> JStr(<<"7">>)])] }
    \cup { [id |-> u, body |-> Body([done |-> JBool(TRUE)])] : u \in DrawnIds }

DeleteIds == {T1, T3, UnknownId} \cup DrawnIds

DeleteTagBodies ==
    { Body([tag |-> JStr(<<"w","o","r","k">>)]),
      Body([tag |-> JStr(<<" ","G","E","N","E","R","A","L"," ">>)]),
      Body([tag |-> JStr(Blank)]),
      EmptyBody }

ReorderBodies ==
    { EmptyBody,
      Body([taskIds |-> JArr(<<>>)]),
      Body([taskIds |-> JArr(<<JStr(T3), JStr(UnknownId), JNum(7), JStr(T3), JStr(T1)>>)]),
      Body([taskIds |-> JArr(<<JStr(T5), JStr(T4), JStr(T3), JStr(T2), JStr(T1)>>)]) }

Now == toISOString(clock)

\* A request is handled: the state becomes what the handler leaves, and
\* last records the request, the response, and the directory, the log and
\* the time the handler started with.
Handled(request, reply) ==
    /\ nreq < MaxRequests
    /\ nreq' = nreq + 1
    /\ files' = reply.dir
    /\ logbook' = reply.log
    /\ uuids' = reply.drawn
    /\ last' = [op |-> request.op, id |-> request.id, body |-> request.body,
                status |-> reply.status, response |-> reply.body,
                before |-> files, logBefore |-> logbook, at |-> Now]
    /\ UNCHANGED <<clock, call, arg, res>>

Request(op, id, body) == [op |-> op, id |-> id, body |-> body]

\* Time passes.  Only the order and the equality of timestamps is read, so
\* one tick between two requests stands for any number of them, and time
\* after the last request is not followed.
Tick ==
    /\ nreq < MaxRequests
    /\ clock <= nreq
    /\ clock' = clock + 1
    /\ UNCHANGED <<files, logbook, uuids, nreq, last, call, arg, res>>

ListTasks ==
    Handled(Request("list", NoFile, EmptyBody), handleListTasks(files, logbook, uuids, Now))

ListLogbook ==
    Handled(Request("listLogbook", NoFile, EmptyBody),
            handleListLogbook(files, logbook, uuids, Now))

ClearLogbook ==
    Handled(Request("clearLogbook", NoFile, EmptyBody),
            handleClearLogbook(files, logbook, uuids, Now))

CreateTask ==
    \E body \in CreateBodies :
        Handled(Request("create", NoFile, body),
                handleCreateTask(files, logbook, uuids, body, Now))

UpdateTask ==
    \E r \in UpdateRequests :
        Handled(Request("update", r.id, r.body),
                handleUpdateTask(files, logbook, uuids, r.id, r.body, Now))

DeleteTask ==
    \E id \in DeleteIds :
        Handled(Request("deleteOne", id, EmptyBody),
                handleDeleteTask(files, logbook, uuids, id, Now))

DeleteCompletedTasks ==
    Handled(Request("deleteCompleted", NoFile, EmptyBody),
            handleDeleteCompletedTasks(files, logbook, uuids, Now))

DeleteTagEverywhere ==
    \E body \in DeleteTagBodies :
        Handled(Request("deleteTag", NoFile, body),
                handleDeleteTagEverywhere(files, logbook, uuids, body, Now))

ReorderTasks ==
    \E body \in ReorderBodies :
        Handled(Request("reorder", NoFile, body),
                handleReorderTasks(files, logbook, uuids, body, Now))

Next ==
    \/ Tick
    \/ ListTasks
    \/ ListLogbook
    \/ ClearLogbook
    \/ CreateTask
    \/ UpdateTask
    \/ DeleteTask
    \/ DeleteCompletedTasks
    \/ DeleteTagEverywhere
    \/ ReorderTasks

Spec == Init /\ [][Next]_vars


(***************************************************************************)
(* Properties of the store, requests handled one at a time                 *)
(***************************************************************************)

\* What list() returns on a directory at a time: the tasks of the records.
ListAt(dir, at) == TasksOf(getTaskRecords(dir, at).records)

\* A property of what list() returned before the last request and of what
\* it returns after it.
Listed(Property(_, _)) ==
    Bind(ListAt(last.before, last.at), LAMBDA before :
    Bind(ListAt(files, last.at), LAMBDA after : Property(before, after)))

Ids(tasks) == {tasks[i].id : i \in 1..Len(tasks)}

\* The task of an id in a list that holds it.
TaskOf(tasks, id) == tasks[CHOOSE i \in 1..Len(tasks) : tasks[i].id = id]

\* What each file of the directory parses to.
StoredTasks == [name \in DOMAIN files |-> parseDocument(files[name], Now)]

\* The tags as the frontmatter of a file holds them.
WrittenTags(name) == [i \in 1..Len(files[name].meta.tags.v) |-> files[name].meta.tags.v[i].v]

\* The entries the last request appended, given that it only appended.
OnlyAppended ==
    /\ Len(logbook) >= Len(last.logBefore)
    /\ SubSeq(logbook, 1, Len(last.logBefore)) = last.logBefore

Appended == SubSeq(logbook, Len(last.logBefore) + 1, Len(logbook))

\* C1: whatever requests were handled, no two files of the task directory
\* carry the same task id, and every file is named <id>--<slug(title)>.md
\* for the title its task has.
C1_OneFilePerTask ==
    Bind(StoredTasks, LAMBDA stored :
        \A name \in DOMAIN files :
            /\ stored[name].ok
            /\ name = taskFilename(stored[name].task)
            /\ \A other \in DOMAIN files :
                  stored[other].task.id = stored[name].task.id => other = name)

\* C1 witness: an update gave a task a title of another slug; its old file
\* is gone and the file named after the new title is there.
C1_Witness ==
    /\ last.op = "update"
    /\ last.status = 200
    /\ taskFilename(last.response.task) \in DOMAIN files
    /\ \E old \in DOMAIN last.before :
          /\ old \notin DOMAIN files
          /\ parseDocument(last.before[old], last.at).task.id = last.id

\* A list of tags is non-empty, has no empty or white-space-only tag and no
\* two tags equal case-insensitively.
TagsWellFormed(tags) ==
    /\ Len(tags) > 0
    /\ \A i \in 1..Len(tags) : Trim(tags[i]) # <<>>
    /\ \A i, j \in 1..Len(tags) : i # j => ToLowerCase(tags[i]) # ToLowerCase(tags[j])

\* C2: in every reachable state every task's tag list, as written to its
\* file and as read back, is non-empty, has no empty or white-space-only
\* tag, and has no two tags equal case-insensitively.
C2_TagsWellFormed ==
    Bind(StoredTasks, LAMBDA stored :
        \A name \in DOMAIN files :
            /\ TagsWellFormed(WrittenTags(name))
            /\ TagsWellFormed(stored[name].task.tags))

\* C2 witness: an update sent an empty tag array and the task was stored
\* with the default tag alone.
C2_Witness ==
    /\ last.op = "update"
    /\ last.status = 200
    /\ last.body.tags = JArr(<<>>)
    /\ last.response.task.tags = <<DEFAULT_TAG>>
    /\ WrittenTags(taskFilename(last.response.task)) = <<DEFAULT_TAG>>

\* C3: whatever a reorder request sends, list() returns the same set of
\* task ids after it as before it, each id once.
C3_ReorderKeepsIds ==
    last.op = "reorder" =>
        Listed(LAMBDA before, after :
            /\ Ids(after) = Ids(before)
            /\ Len(after) = Len(before)
            /\ Cardinality(Ids(after)) = Len(after))

\* C3 witness: a reorder naming a task twice, an unknown id and a number,
\* and leaving tasks out, was answered and moved the task named first to
\* the front.
C3_Witness ==
    /\ last.op = "reorder"
    /\ last.status = 200
    /\ last.body.taskIds = JArr(<<JStr(T3), JStr(UnknownId), JNum(7), JStr(T3), JStr(T1)>>)
    /\ Listed(LAMBDA before, after :
            before[1].id = T1 /\ after[1].id = T3 /\ after[2].id = T1)

\* The body of a request has a title that is not blank and no other field.
TitleOnly(body) ==
    /\ body.title.t = "str"
    /\ Trim(body.title.v) # <<>>
    /\ body = Body([title |-> body.title])

\* C6: a create with a non-blank title and no other field is answered 201
\* with a task whose id no task listed before has, whose tags are
\* ["General"], whose done is false, whose order is the number of tasks
\* list() returned before, and whose createdAt is its updatedAt; list()
\* afterwards returns that task and, unchanged, the tasks it returned before.
C6_CreateWithTitleOnly ==
    (last.op = "create" /\ TitleOnly(last.body)) =>
        /\ last.status = 201
        /\ Listed(LAMBDA before, after :
              /\ last.response.task.id \notin Ids(before)
              /\ last.response.task.tags = <<DEFAULT_TAG>>
              /\ last.response.task.done = FALSE
              /\ last.response.task.order = Len(before)
              /\ last.response.task.createdAt = last.response.task.updatedAt
              /\ Len(after) = Len(before) + 1
              /\ \E i \in 1..Len(after) : after[i] = last.response.task
              /\ \A i \in 1..Len(before) : \E j \in 1..Len(after) : after[j] = before[i])

\* C6 witness: a second task was created from a title alone, after the
\* five seed tasks and a first created task.
C6_Witness ==
    /\ last.op = "create"
    /\ TitleOnly(last.body)
    /\ last.status = 201
    /\ Listed(LAMBDA before, after : Len(before) = 6 /\ Len(after) = 7)
    /\ last.response.task.order = 6

\* C7: an answered update that turns done from false to true appends one
\* task_completed entry and nothing else, one that turns it from true to
\* false appends one task_reopened entry and nothing else, and one without
\* a done field or with the stored value of done leaves the log as it was.
C7_DoneToggleLogged ==
    (last.op = "update" /\ last.status = 200) =>
        Listed(LAMBDA before, after :
            LET stored == TaskOf(before, last.id).done
                sent == HasField(last.body, "done")
                wanted == JsTruthy(last.body.done)
            IN  /\ OnlyAppended
                /\ (sent /\ ~stored /\ wanted) =>
                      /\ Len(Appended) = 1
                      /\ Appended[1].type = "task_completed"
                /\ (sent /\ stored /\ ~wanted) =>
                      /\ Len(Appended) = 1
                      /\ Appended[1].type = "task_reopened"
                /\ (~sent \/ wanted = stored) => Appended = <<>>)

\* C7 witness: a task was completed by one update and reopened by the
\* next; the log holds the two entries.
C7_Witness ==
    /\ last.op = "update"
    /\ last.status = 200
    /\ Len(logbook) = 2
    /\ logbook[1].type = "task_completed"
    /\ logbook[2].type = "task_reopened"
    /\ logbook[1].data.taskId = last.id
    /\ logbook[2].data.taskId = last.id

\* A tag list holds a tag, compared case-insensitively.
ListsTag(tags, tag) == \E i \in 1..Len(tags) : ToLowerCase(tags[i]) = ToLowerCase(tag)

\* The tags of a list other than a tag, compared case-insensitively.
OtherTags(tags, tag) ==
    SelectSeq(tags, LAMBDA t : ToLowerCase(t) # ToLowerCase(tag))

\* An answered deleteTagEverywhere request, and the tag it deleted.
TagDeleted == last.op = "deleteTag" /\ last.status = 200

\* C8 as stated: after deleteTagEverywhere(tag) no task that had the tag
\* still lists it; a task whose tag list became empty has exactly
\* ["General"]; a task that did not have the tag has its tags unchanged.
C8_TagGoneEverywhere ==
    TagDeleted =>
        Listed(LAMBDA before, after :
            \A i \in 1..Len(before) :
                LET was == before[i].tags
                    now == TaskOf(after, before[i].id).tags
                    tag == last.response.deletedTag
                IN  /\ ListsTag(was, tag) => ~ListsTag(now, tag)
                    /\ (ListsTag(was, tag) /\ OtherTags(was, tag) = <<>>) =>
                          now = <<DEFAULT_TAG>>
                    /\ ~ListsTag(was, tag) => now = was)

\* C8 corrected: after deleteTagEverywhere(tag) a task that had the tag has
\* its other tags, in order, or exactly ["General"] where it had no other
\* tag; so it still lists the tag only where the tag is "General"
\* case-insensitively and was its only tag.  A task that did not have the
\* tag has its tags unchanged.
C8_TagGoneUnlessDefault ==
    TagDeleted =>
        Listed(LAMBDA before, after :
            /\ Ids(after) = Ids(before)
            /\ \A i \in 1..Len(before) :
                  LET was == before[i].tags
                      now == TaskOf(after, before[i].id).tags
                      tag == last.response.deletedTag
                  IN  /\ (ListsTag(was, tag) /\ OtherTags(was, tag) # <<>>) =>
                            /\ now = OtherTags(was, tag)
                            /\ ~ListsTag(now, tag)
                      /\ (ListsTag(was, tag) /\ OtherTags(was, tag) = <<>>) =>
                            now = <<DEFAULT_TAG>>
                      /\ (ListsTag(was, tag) /\ ListsTag(now, tag)) =>
                            /\ ToLowerCase(tag) = ToLowerCase(DEFAULT_TAG)
                            /\ OtherTags(was, tag) = <<>>
                      /\ ~ListsTag(was, tag) => now = was)

\* C8 witness: "GENERAL" was deleted everywhere while a task had "General"
\* as its only tag, and the task lists "General" afterwards.
C8_Witness ==
    /\ TagDeleted
    /\ last.response.deletedTag = <<"G","E","N","E","R","A","L">>
    /\ last.response.changedCount > 0
    /\ Listed(LAMBDA before, after :
          \E i \in 1..Len(before) :
              /\ before[i].tags = <<DEFAULT_TAG>>
              /\ TaskOf(after, before[i].id).tags = <<DEFAULT_TAG>>)

\* The ids of the tasks of a list that have the tag.
HavingTag(tasks, tag) ==
    {tasks[i].id : i \in {j \in 1..Len(tasks) : ListsTag(tasks[j].tags, tag)}}

\* C9: where k tasks have the tag when deleteTagEverywhere(tag) is called,
\* the call appends k tag_removed_from_task entries, one for each of these
\* tasks, and after them one tag_deleted_everywhere entry with
\* changedCount = k when k > 0; it appends nothing when k = 0.
C9_DeleteTagLogEntries ==
    TagDeleted =>
        Listed(LAMBDA before, after :
        Bind(HavingTag(before, last.response.deletedTag), LAMBDA had :
            LET k == Cardinality(had)
            IN  /\ OnlyAppended
                /\ k = 0 => Appended = <<>>
                /\ k > 0 =>
                      /\ Len(Appended) = k + 1
                      /\ \A i \in 1..k : Appended[i].type = "tag_removed_from_task"
                      /\ {Appended[i].data.taskId : i \in 1..k} = had
                      /\ Appended[k + 1].type = "tag_deleted_everywhere"
                      /\ Appended[k + 1].data.changedCount = k))

\* C9 witness: "work" was deleted everywhere while two tasks had "Work";
\* three entries were appended.
C9_Witness ==
    /\ TagDeleted
    /\ last.response.deletedTag = <<"w","o","r","k">>
    /\ Listed(LAMBDA before, after :
          Cardinality(HavingTag(before, last.response.deletedTag)) = 2)
    /\ Len(Appended) = 3
    /\ Appended[3].data.changedCount = 2

(***************************************************************************)
(* The delete handlers step by step                                        *)
(*                                                                         *)
(* handleDeleteTask and handleDeleteCompletedTasks await each write; call  *)
(* holds the handler between two of them: the records it read, the         *)
(* statements it has yet to run, and how many files its loop has removed.  *)
(***************************************************************************)

\* A variant of handleDeleteTaskSteps that removes the file first.
handleDeleteTaskStepsRemovingFirst == <<"rm", "appendLogEntry", "sendJson">>

\* The statements of handleDeleteTask after the record is found.
handleDeleteTaskSteps == <<"appendLogEntry", "rm", "sendJson">>

\* The statements of handleDeleteCompletedTasks after the records are
\* filtered; "rm" is the loop, one file each time.
handleDeleteCompletedTasksSteps == <<"appendLogEntry", "rm", "sendJson">>

InFlight(op) == call.op = op

NextStatement == Head(call.steps)

\* The ids the step-wise requests may name.
StepIds == {T1, T3, UnknownId}

\* The tasks an atomic update may complete before a delete.
CompletableIds == {T1, T2}

Answered(op, id, status, body) ==
    [op |-> op, id |-> id, body |-> EmptyBody, status |-> status, response |-> body,
     before |-> call.before, logBefore |-> call.logBefore, at |-> call.at]

\* An update that completes a task, handled in one step.
CompleteTask ==
    /\ call = NoCall
    /\ \E id \in CompletableIds :
          Handled(Request("update", id, Body([done |-> JBool(TRUE)])),
                  handleUpdateTask(files, logbook, uuids, id,
                                   Body([done |-> JBool(TRUE)]), Now))

\* handleDeleteTask up to the record found: findTaskRecordById(taskId).
StartDeleteTask ==
    /\ call = NoCall
    /\ nreq < MaxRequests
    /\ \E id \in StepIds :
          \E got \in {getTaskRecords(files, Now)} :
          \E record \in {FindRecord(got.records, id)} :
              /\ record.fileName # NoFile
              /\ files' = got.dir
              /\ call' = [op |-> "deleteOne", id |-> id, records |-> <<record>>,
                          steps |-> handleDeleteTaskSteps, removed |-> 0,
                          before |-> files, logBefore |-> logbook, at |-> Now]
              /\ UNCHANGED <<logbook, uuids, clock, nreq, last, arg, res>>

\* if (!record) { sendJson(res, 404, ...); return; }
DeleteTaskNotFound ==
    /\ call = NoCall
    /\ nreq < MaxRequests
    /\ \E id \in StepIds :
          \E got \in {getTaskRecords(files, Now)} :
              /\ FindRecord(got.records, id).fileName = NoFile
              /\ files' = got.dir
              /\ nreq' = nreq + 1
              /\ last' = [op |-> "deleteOne", id |-> id, body |-> EmptyBody, status |-> 404,
                          response |-> [error |-> "Task not found."],
                          before |-> files, logBefore |-> logbook, at |-> Now]
              /\ UNCHANGED <<logbook, uuids, clock, call, arg, res>>

\* await appendLogEntry("task_deleted", {...})
DeleteTaskAppendLogEntry ==
    /\ InFlight("deleteOne")
    /\ NextStatement = "appendLogEntry"
    /\ logbook' = appendLogEntry(logbook, uuids, "task_deleted",
                                 [taskId |-> call.records[1].task.id,
                                  title |-> call.records[1].task.title,
                                  task |-> call.records[1].task], Now)
    /\ uuids' = uuids + 1
    /\ call' = [call EXCEPT !.steps = Tail(@)]
    /\ UNCHANGED <<files, clock, nreq, last, arg, res>>

\* await rm(record.filePath)
DeleteTaskRm ==
    /\ InFlight("deleteOne")
    /\ NextStatement = "rm"
    /\ files' = rm(files, call.records[1].fileName)
    /\ call' = [call EXCEPT !.steps = Tail(@), !.removed = @ + 1]
    /\ UNCHANGED <<logbook, uuids, clock, nreq, last, arg, res>>

\* sendJson(res, 200, { ok: true })
DeleteTaskSendJson ==
    /\ InFlight("deleteOne")
    /\ NextStatement = "sendJson"
    /\ last' = Answered("deleteOne", call.id, 200, [ok |-> TRUE])
    /\ nreq' = nreq + 1
    /\ call' = NoCall
    /\ UNCHANGED <<files, logbook, uuids, clock, arg, res>>

\* handleDeleteCompletedTasks up to the records filtered.
StartDeleteCompleted ==
    /\ call = NoCall
    /\ nreq < MaxRequests
    /\ \E got \in {getTaskRecords(files, Now)} :
          /\ files' = got.dir
          /\ call' = [op |-> "deleteCompleted", id |-> NoFile,
                      records |-> SelectSeq(got.records, IsDone),
                      steps |-> handleDeleteCompletedTasksSteps, removed |-> 0,
                      before |-> files, logBefore |-> logbook, at |-> Now]
    /\ UNCHANGED <<logbook, uuids, clock, nreq, last, arg, res>>

\* if (completed.length > 0) await appendLogEntry("completed_tasks_deleted", {...})
DeleteCompletedAppendLogEntry ==
    /\ InFlight("deleteCompleted")
    /\ NextStatement = "appendLogEntry"
    /\ IF Len(call.records) > 0
       THEN /\ logbook' = appendLogEntry(logbook, uuids, "completed_tasks_deleted",
                                         [count |-> Len(call.records),
                                          tasks |-> TasksOf(call.records)], Now)
            /\ uuids' = uuids + 1
       ELSE UNCHANGED <<logbook, uuids>>
    /\ call' = [call EXCEPT !.steps = Tail(@)]
    /\ UNCHANGED <<files, clock, nreq, last, arg, res>>

\* for (const record of completed) await rm(record.filePath): one turn of
\* the loop, or its end.
DeleteCompletedRm ==
    /\ InFlight("deleteCompleted")
    /\ NextStatement = "rm"
    /\ IF call.removed < Len(call.records)
       THEN /\ files' = rm(files, call.records[call.removed + 1].fileName)
            /\ call' = [call EXCEPT !.removed = @ + 1]
       ELSE /\ call' = [call EXCEPT !.steps = Tail(@)]
            /\ UNCHANGED files
    /\ UNCHANGED <<logbook, uuids, clock, nreq, last, arg, res>>

\* const remaining = await getTaskRecords(); sendJson(res, 200, {...})
DeleteCompletedSendJson ==
    /\ InFlight("deleteCompleted")
    /\ NextStatement = "sendJson"
    /\ \E remaining \in {getTaskRecords(files, Now)} :
          /\ files' = remaining.dir
          /\ last' = Answered("deleteCompleted", NoFile, 200,
                              [deletedCount |-> Len(call.records),
                               tasks |-> TasksOf(remaining.records)])
    /\ nreq' = nreq + 1
    /\ call' = NoCall
    /\ UNCHANGED <<logbook, uuids, clock, arg, res>>

NextSteps ==
    \/ Tick
    \/ CompleteTask
    \/ StartDeleteTask
    \/ DeleteTaskNotFound
    \/ DeleteTaskAppendLogEntry
    \/ DeleteTaskRm
    \/ DeleteTaskSendJson
    \/ StartDeleteCompleted
    \/ DeleteCompletedAppendLogEntry
    \/ DeleteCompletedRm
    \/ DeleteCompletedSendJson

SpecSteps == Init /\ [][NextSteps]_vars

\* The entries appended since the handler in flight started.
LoggedByCall == SubSeq(logbook, Len(call.logBefore) + 1, Len(logbook))

\* A log entry is the deletion entry of the handler that names the task.
NamesDeleted(entry, op, task) ==
    \/ /\ op = "deleteOne"
       /\ entry.type = "task_deleted"
       /\ entry.data.taskId = task.id
    \/ /\ op = "deleteCompleted"
       /\ entry.type = "completed_tasks_deleted"
       /\ \E j \in 1..Len(entry.data.tasks) : entry.data.tasks[j].id = task.id

\* C10: in every state between two steps of deleteOne or deleteCompleted,
\* a task file the handler has removed is the file of a task that an entry
\* the handler appended (task_deleted, completed_tasks_deleted) names.
C10_LoggedBeforeRemoved ==
    (InFlight("deleteOne") \/ InFlight("deleteCompleted")) =>
        \A i \in 1..Len(call.records) :
            call.records[i].fileName \notin DOMAIN files =>
                \E k \in 1..Len(LoggedByCall) :
                    NamesDeleted(LoggedByCall[k], call.op, call.records[i].task)

\* C10 witness: deleteCompleted is between two turns of its loop: of two
\* completed tasks the file of the first is removed, that of the second is not.
C10_Witness ==
    /\ InFlight("deleteCompleted")
    /\ Len(call.records) = 2
    /\ call.removed = 1
    /\ call.records[1].fileName \notin DOMAIN files
    /\ call.records[2].fileName \in DOMAIN files
    /\ Len(LoggedByCall) = 1

(***************************************************************************)
(* The store with few tasks left                                           *)
(*                                                                         *)
(* The same requests, from the state the store is in once three of the     *)
(* five seed tasks were deleted: t1 and the completed t3 are left, and the *)
(* log holds the three task_deleted entries.                               *)
(***************************************************************************)

\* DELETE /api/tasks/{id} for each id of a sequence, one after the other.
RECURSIVE DeleteEach(_, _, _, _)
DeleteEach(state, ids, i, now) ==
    IF i > Len(ids) THEN state
    ELSE Bind(handleDeleteTask(state.dir, state.log, state.drawn, ids[i], now),
              LAMBDA reply : DeleteEach(reply, ids, i + 1, now))

DeletedFirst == <<T2, T4, T5>>

InitFew ==
    \E few \in {DeleteEach(Reply(EmptyDir, <<>>, 0, 200, <<>>), DeletedFirst, 1,
                           toISOString(1))} :
        /\ files = few.dir
        /\ logbook = few.log
        /\ uuids = few.drawn
        /\ clock = 1
        /\ nreq = 0
        /\ last = [op |-> "start"]
        /\ call = NoCall
        /\ arg = <<>>
        /\ res = NoResult

SpecFew == InitFew /\ [][Next]_vars

\* The tasks of a list that are done, and those that are not.
DoneTasks(tasks) == SelectSeq(tasks, LAMBDA task : task.done)

OpenTasks(tasks) == SelectSeq(tasks, LAMBDA task : ~task.done)

\* C11: deleteCompleted appends one completed_tasks_deleted entry whose
\* count and tasks are the tasks that were done, or nothing when none was;
\* afterwards the tasks that were done are gone and list() returns the
\* tasks that were not done, unchanged.
C11_DeleteCompleted ==
    (last.op = "deleteCompleted" /\ last.status = 200) =>
        Listed(LAMBDA before, after :
        Bind(DoneTasks(before), LAMBDA completed :
            /\ OnlyAppended
            /\ completed = <<>> => Appended = <<>>
            /\ completed # <<>> =>
                  /\ Len(Appended) = 1
                  /\ Appended[1].type = "completed_tasks_deleted"
                  /\ Appended[1].data.count = Len(completed)
                  /\ Appended[1].data.tasks = completed
            /\ Ids(after) \cap Ids(completed) = {}
            /\ after = OpenTasks(before)
            /\ last.response.deletedCount = Len(completed)
            /\ last.response.tasks = OpenTasks(before)))

\* The ids of a list of tasks, in order.
IdsInOrder(tasks) == [i \in 1..Len(tasks) |-> tasks[i].id]

\* The positions of an array of values that hold the id of a known task
\* which no earlier position holds.
FirstNamings(sent, known) ==
    {i \in 1..Len(sent) :
        /\ sent[i].t = "str"
        /\ sent[i].v \in known
        /\ \A j \in 1..(i - 1) : sent[j].t = "str" => sent[j].v # sent[i].v}

\* The ids at a set of positions, in position order.
NamedAt(sent, positions) ==
    [k \in 1..Cardinality(positions) |->
        sent[CHOOSE i \in positions : Cardinality({j \in positions : j < i}) = k - 1].v]

\* C12: after an answered reorder(ids), list() returns first the ids of the
\* input that stored tasks have, each once in order of first occurrence,
\* then the tasks the input does not name in the order list() had them in;
\* and the task at position i, counted from 0, has order = i.
C12_ReorderOrder ==
    (last.op = "reorder" /\ last.status = 200) =>
        Listed(LAMBDA before, after :
        Bind(NamedAt(last.body.taskIds.v, FirstNamings(last.body.taskIds.v, Ids(before))),
             LAMBDA named :
            /\ IdsInOrder(after)
                  = named \o SelectSeq(IdsInOrder(before), LAMBDA id : id \notin Range(named))
            /\ \A i \in 1..Len(after) : after[i].order = i - 1
            /\ IdsInOrder(last.response.tasks) = IdsInOrder(after)))

\* C12 witness: a reorder named t3 twice, an unknown id, a number and t1;
\* list() returns t3, t1, t2, t4, t5 with orders 0 to 4.
C12_Witness ==
    /\ last.op = "reorder"
    /\ last.status = 200
    /\ Len(last.body.taskIds.v) = 5
    /\ IdsInOrder(last.response.tasks) = <<T3, T1, T2, T4, T5>>
    /\ [i \in 1..5 |-> last.response.tasks[i].order] = <<0, 1, 2, 3, 4>>

\* The last request left every task file and the log as they were.
NothingWritten == files = last.before /\ logbook = last.logBefore

\* C13: an update or a deleteOne for an id that no task of list() has is
\* answered 404 and leaves the task files, their contents and the log as
\* they were before the call.
C13_NotFoundWritesNothing ==
    last.op \in {"update", "deleteOne"} =>
        Listed(LAMBDA before, after :
            last.id \notin Ids(before) => (last.status = 404 /\ NothingWritten))

\* The tasks that have a file in the directory the last request started with.
StoredBefore ==
    {parseDocument(last.before[name], last.at).task.id : name \in DOMAIN last.before}

\* The text a request sent in a field, trimmed; empty where the field is
\* missing.
SentText(field) == Trim(JsString(Coalesce(last.body[field], JStr(<<>>))))

\* C14: a create whose title is missing, empty or white space, an update of
\* a task that has a file with a title that is empty or white space, a
\* reorder whose taskIds is not an array and a deleteTagEverywhere whose
\* tag is missing or blank are each answered 400 and leave every task file
\* and the log as they were.
C14_BadRequestWritesNothing ==
    /\ (last.op = "create" /\ SentText("title") = <<>>) =>
          (last.status = 400 /\ NothingWritten)
    /\ (/\ last.op = "update"
        /\ last.id \in StoredBefore
        /\ HasField(last.body, "title")
        /\ SentText("title") = <<>>) =>
          (last.status = 400 /\ NothingWritten)
    /\ (last.op = "reorder" /\ last.body.taskIds.t # "arr") =>
          (last.status = 400 /\ NothingWritten)
    /\ (last.op = "deleteTag" /\ SentText("tag") = <<>>) =>
          (last.status = 400 /\ NothingWritten)

\* C14 witness: an update of a task that has a file, with a title that is
\* empty or white space, was answered 400.
C14_Witness ==
    /\ last.op = "update"
    /\ last.id \in StoredBefore
    /\ SentText("title") = <<>>
    /\ HasField(last.body, "title")
    /\ last.status = 400
    /\ NothingWritten

\* A sequence starts with another.
StartsWith(longer, shorter) ==
    /\ Len(longer) >= Len(shorter)
    /\ SubSeq(longer, 1, Len(shorter)) = shorter

\* C15: in every step the log either keeps every entry it has, unchanged
\* and in place, with the entries the request appended after them, or is
\* emptied by clear; and after clear readAll returns no entry.
C15_AppendOnly ==
    [][/\ \/ StartsWith(logbook', logbook)
          \/ (last'.op = "clearLogbook" /\ logbook' = <<>>)
       /\ last'.op = "clearLogbook" => readLogbookEntries(logbook') = <<>>]_vars

\* C15 witness: a request appended an entry to a log that held entries.
C15_Witness ==
    /\ last.op \in {"update", "deleteOne", "deleteCompleted", "deleteTag"}
    /\ last.logBefore # <<>>
    /\ Len(logbook) > Len(last.logBefore)
    /\ StartsWith(logbook, last.logBefore)

\* The ids of the tasks the deletion entries of a log name.
DeletedIds(log) ==
    UNION {IF log[k].type = "task_deleted" THEN {log[k].data.taskId}
           ELSE IF log[k].type = "completed_tasks_deleted" THEN Ids(log[k].data.tasks)
           ELSE {} : k \in 1..Len(log)}

\* C19: a task that deleteOne or deleteCompleted has removed stays
\* deleted: list() returns no task of its id, and update and deleteOne of
\* its id answer 404.  (create returns an id randomUUID has not drawn
\* before, so no create returns the id again.)
C19_DeletedStaysDeleted ==
    /\ DeletedIds(logbook) \cap Ids(ListAt(files, Now)) = {}
    /\ last.op \in {"update", "deleteOne"} =>
           (last.id \in DeletedIds(last.logBefore) => last.status = 404)

\* The body of the last request names a field of the task: "tag" is read
\* as the one tag of tags when "tags" is absent.
Sent(field) ==
    \/ HasField(last.body, field)
    \/ (field = "tags" /\ HasField(last.body, "tag"))

\* The fields of a task a body may set.
SettableFields == {"title", "description", "tags", "done", "order"}

\* The value a task has for a field.
FieldOf(task, field) ==
    CASE field = "title" -> task.title
      [] field = "description" -> task.description
      [] field = "tags" -> task.tags
      [] field = "done" -> task.done
      [] field = "order" -> task.order

\* C21: an update that answers 200 leaves every other task as it was, and
\* of the task it names it keeps the id, createdAt and every field the
\* body does not have.
C21_PartialUpdate ==
    (last.op = "update" /\ last.status = 200) =>
        Listed(LAMBDA before, after :
            /\ Ids(after) = Ids(before)
            /\ \A id \in Ids(before) \ {last.id} : TaskOf(after, id) = TaskOf(before, id)
            /\ Bind(TaskOf(before, last.id), LAMBDA stored :
               Bind(TaskOf(after, last.id), LAMBDA updated :
                   /\ updated.id = stored.id
                   /\ updated.createdAt = stored.createdAt
                   /\ \A field \in SettableFields :
                          ~Sent(field) => FieldOf(updated, field) = FieldOf(stored, field))))

\* C21 witness: an update that sent done alone, at a later time than the
\* task was written, has changed done and updatedAt of the task.
C21_Witness ==
    /\ last.op = "update"
    /\ last.status = 200
    /\ Sent("done")
    /\ \A field \in SettableFields \ {"done"} : ~Sent(field)
    /\ Listed(LAMBDA before, after :
           /\ TaskOf(after, last.id).done # TaskOf(before, last.id).done
           /\ TaskOf(after, last.id).updatedAt # TaskOf(before, last.id).updatedAt
           /\ TaskOf(after, last.id).title = TaskOf(before, last.id).title)

\* C23: the task a successful create returns is the last task of the
\* list() taken right after it.
C23_CreatedLast ==
    (last.op = "create" /\ last.status = 201) =>
        Listed(LAMBDA before, after :
            /\ Len(after) > 0
            /\ after[Len(after)].id = last.response.task.id)

\* A create on a store whose tasks have the orders 0..n-1 puts the task last.
CreatedLastWhenDense ==
    (last.op = "create" /\ last.status = 201) =>
        Listed(LAMBDA before, after :
            (\A i \in 1..Len(before) : before[i].order = i - 1) =>
                after[Len(after)].id = last.response.task.id)

\* C26: when deleteCompleted has answered, no task of the list it
\* answers with and no task file of the directory is done.
C26_NoneDoneAfterDeleteCompleted ==
    (last.op = "deleteCompleted" /\ last.status = 200) =>
        /\ DoneTasks(last.response.tasks) = <<>>
        /\ \A name \in DOMAIN files : ~parseDocument(files[name], Now).task.done

\* The same while a task that is not done is stored before the call.
NoneDoneWhileOpenLeft ==
    (last.op = "deleteCompleted" /\ last.status = 200) =>
        Listed(LAMBDA before, after :
            OpenTasks(before) # <<>> =>
                (DoneTasks(last.response.tasks) = <<>> /\ DoneTasks(after) = <<>>))

\* The last request was an update that left the done flag of its task as
\* it was, or was refused.
DoneKept ==
    /\ last.op = "update"
    /\ last.status = 200 =>
          Listed(LAMBDA before, after :
              TaskOf(after, last.id).done = TaskOf(before, last.id).done)

\* C28: list, create, reorder, reading the logbook, and an update that
\* does not change the done flag of a task leave the logbook as it was.
C28_OnlyEventsLogged ==
    (last.op \in {"list", "create", "reorder", "listLogbook"} \/ DoneKept) =>
        logbook = last.logBefore

\* C28 witness: an update that sent the done flag its task had was
\* answered 200 and appended nothing to a log that holds entries.
C28_Witness ==
    /\ last.op = "update"
    /\ last.status = 200
    /\ HasField(last.body, "done")
    /\ DoneKept
    /\ logbook = last.logBefore
    /\ logbook # <<>>
(***************************************************************************)
(* The codec as a pure function: serialise a task, parse the text back     *)
(***************************************************************************)
CodecNow == <<"0","7">>

CodecTitles == { <<"A"," ","b">>, <<" ","a",":","b"," ">>, <<"x",Quote,Backslash,"n">>, <<"\n">> }
CodecDescriptions ==
    { <<>>, <<"a">>, <<"a"," ","\n">>, <<" ","a">>, <<"\n","a","\n","b">>,
      <<"a","\n","-","-","-","\n","b">>, <<" ","\n">> }
CodecTags == { JUndef, JArr(<<>>), JArr(<<JStr(<<"W">>), JStr(<<"w"," ">>), JStr(<<"a",",",Quote>>)>>),
               JStr(<<"a",",","b">>) }
CodecDone == { JUndef, JBool(TRUE), JStr(<<"n","o">>) }
CodecOrders == { JUndef, JNum(0), JNum(12), JNum(-3), JNaN, JStr(<<"1">>) }
CodecCreated == { JUndef, JStr(<<"0","3">>), JNum(5) }
CodecIds == { JStr(<<"t","2">>), JNum(7) }

CodecTasks ==
    { Spread(EmptyObject,
             [id |-> i, title |-> JStr(ti), description |-> JStr(d), tags |-> tg,
              done |-> dn, order |-> o, createdAt |-> c, updatedAt |-> c]) :
        i \in CodecIds, ti \in CodecTitles, d \in CodecDescriptions, tg \in CodecTags,
        dn \in CodecDone, o \in CodecOrders, c \in CodecCreated }

InitCodec ==
    /\ arg \in CodecTasks
    /\ res = NoResult
    /\ StoreIdle

CallRoundTrip ==
    /\ ~res.called
    /\ res' = [called |-> TRUE,
               normalized |-> normalizeTask(arg, CodecNow),
               parsed |-> parseMarkdownTask(taskToMarkdown(arg, CodecNow), CodecNow),
               document |-> parseDocument(markdownDocument(arg, CodecNow), CodecNow)]
    /\ UNCHANGED <<arg, storeVars>>

NextCodec == CallRoundTrip

SpecCodec == InitCodec /\ [][NextCodec]_vars

\* The document the store keeps for a file stands for the file's text:
\* parsing the one and parsing the other yield the same task.
CodecDocumentAgrees == res.called => res.document = res.parsed

\* Two tasks agree in every field but, possibly, the description.
SameButDescription(a, b) ==
    /\ a.id = b.id /\ a.title = b.title /\ a.tags = b.tags /\ a.done = b.done
    /\ a.order = b.order /\ a.createdAt = b.createdAt /\ a.updatedAt = b.updatedAt

\* C4: parsing the serialised form of a task yields normalizeTask of the task
\* in every field, the description differing at most in trailing white space.
C4_RoundTrip ==
    res.called =>
        /\ res.parsed.ok
        /\ SameButDescription(res.parsed.task, res.normalized)
        /\ TrimEnd(res.parsed.task.description) = TrimEnd(res.normalized.description)

\* What the code does keep: every field but the description, and the
\* description up to white space at both of its ends.
C4_RoundTripModuloTrim ==
    res.called =>
        /\ res.parsed.ok
        /\ SameButDescription(res.parsed.task, res.normalized)
        /\ res.parsed.task.description = Trim(res.normalized.description)

(***************************************************************************)
(* Tag normalisation as a pure function                                    *)
(***************************************************************************)
MaxTags == 3

TagStrings == { <<"W","o","r","k">>, <<"w","o","r","k">>, <<" ","W","o","r","k"," ">>,
                <<" ">>, <<"a",",","B">> }

TagValues == {JStr(s) : s \in TagStrings} \cup {JNull}

RECURSIVE SeqsUpTo(_, _)
SeqsUpTo(S, n) ==
    IF n = 0 THEN {<<>>}
    ELSE LET shorter == SeqsUpTo(S, n - 1)
         IN  shorter \cup {Append(s, x) : s \in {q \in shorter : Len(q) = n - 1}, x \in S}

TagInputs ==
    {JArr(a) : a \in SeqsUpTo(TagValues, MaxTags)} \cup TagValues \cup {JUndef}

TagIds == {<<"t","2">>, <<"u","1">>}

InitTags ==
    /\ arg \in {[tags |-> x, id |-> i] : x \in TagInputs, i \in TagIds}
    /\ res = NoResult
    /\ StoreIdle

CallNormalizeTags ==
    /\ ~res.called
    /\ res' = [called |-> TRUE,
               once |-> normalizeTags(arg.tags, arg.id),
               twice |-> normalizeTags(JArr(StrValues(normalizeTags(arg.tags, arg.id))), arg.id),
               ui |-> normalizeTaskTags(Spread(EmptyObject, [tags |-> arg.tags]))]
    /\ UNCHANGED <<arg, storeVars>>

NextTags == CallNormalizeTags

SpecTags == InitTags /\ [][NextTags]_vars

\* The trimmed text of the i-th value of an array of raw tags.
RawTagText(raw, i) == Trim(JsString(Coalesce(raw[i], JStr(<<>>))))

\* The positions of an array of raw tags that hold a non-empty tag no
\* earlier position holds in any letter case.
FirstOccurrencePositions(raw) ==
    {i \in 1..Len(raw) :
        /\ RawTagText(raw, i) # <<>>
        /\ \A j \in 1..(i - 1) :
              ToLowerCase(RawTagText(raw, j)) # ToLowerCase(RawTagText(raw, i))}

\* A sequence lists exactly the texts at the given positions, in position order.
ListsPositions(tags, raw, positions) ==
    /\ Len(tags) = Cardinality(positions)
    /\ \A k \in 1..Len(tags) :
          \E i \in positions :
             /\ Cardinality({j \in positions : j < i}) = k - 1
             /\ tags[k] = RawTagText(raw, i)

KeepsFirstOccurrences(tags, raw) ==
    IF FirstOccurrencePositions(raw) = {} THEN tags = <<DEFAULT_TAG>>
    ELSE ListsPositions(tags, raw, FirstOccurrencePositions(raw))

\* C5: tag normalisation is idempotent, and of an array of tags it keeps,
\* in input order, the first occurrence of each tag among those equal
\* case-insensitively (the server's normalizeTags and the browser's
\* normalizeTaskTags alike).
C5_NormalizeTagsIdempotent ==
    res.called =>
        /\ res.twice = res.once
        /\ arg.tags.t = "arr" =>
              /\ KeepsFirstOccurrences(res.once, arg.tags.v)
              /\ KeepsFirstOccurrences(res.ui, arg.tags.v)

\* C5 witness: an array with the same tag in two letter cases was normalised
\* and only the first spelling is left.
C5_Witness ==
    /\ res.called
    /\ arg.tags = JArr(<<JStr(<<"w","o","r","k">>), JStr(<<" ","W","o","r","k"," ">>)>>)
    /\ res.once = << <<"w","o","r","k">> >>

(***************************************************************************)
(* Reading the log file as a pure function                                 *)
(*                                                                         *)
(* The file is a sequence of lines.  A line is the JSON text of an entry,  *)
(* white space, or text JSON.parse throws on; text says which, and entry   *)
(* is what JSON.parse returns for the first kind.                          *)
(***************************************************************************)
MaxLines == 4

LogTimes == {toISOString(1), toISOString(2)}

NoEntry == [id |-> <<>>, type |-> "none", createdAt |-> <<>>, data |-> [taskId |-> <<>>]]

\* The line appendLogEntry writes i-th, at a time.
EntryLine(i, at) ==
    [text |-> "json",
     entry |-> [id |-> randomUUID(i), type |-> "task_deleted", createdAt |-> at,
                data |-> [taskId |-> T1]]]

BlankLine == [text |-> "blank", entry |-> NoEntry]

BrokenLine == [text |-> "broken", entry |-> NoEntry]

\* The files of up to MaxLines lines whose entries were appended in the
\* order of time.
RECURSIVE LogFiles(_)
LogFiles(n) ==
    IF n = 0 THEN {<<>>}
    ELSE LET shorter == LogFiles(n - 1)
         IN  shorter \cup
             {Append(lines, line) :
                 lines \in {f \in shorter : Len(f) = n - 1},
                 line \in {EntryLine(n, at) : at \in LogTimes} \cup {BlankLine, BrokenLine}}

IsEntryLine(line) == line.text = "json"

InTimeOrder(lines) ==
    \A i, j \in 1..Len(lines) :
        (i < j /\ IsEntryLine(lines[i]) /\ IsEntryLine(lines[j])) =>
            localeCompare(lines[i].entry.createdAt, lines[j].entry.createdAt) <= 0

\* The loop of readLogbookEntries: a line of white space is passed over,
\* a line JSON.parse throws on is skipped, the others are parsed.
ParsedLines(lines) ==
    Bind(SelectSeq(lines, IsEntryLine), LAMBDA kept :
         [i \in 1..Len(kept) |-> kept[i].entry])

\* readLogbookEntries() on a file
readLogbookFile(lines) == readLogbookEntries(ParsedLines(lines))

InitLog ==
    /\ arg \in {lines \in LogFiles(MaxLines) : InTimeOrder(lines)}
    /\ res = NoResult
    /\ StoreIdle

CallReadLogbook ==
    /\ ~res.called
    /\ res' = [called |-> TRUE, entries |-> readLogbookFile(arg)]
    /\ UNCHANGED <<arg, storeVars>>

NextLog == CallReadLogbook

SpecLog == InitLog /\ [][NextLog]_vars

\* Where readAll returned the entry of a line.
PlaceOf(line) == {k \in 1..Len(res.entries) : res.entries[k] = line.entry}

\* C16: readAll returns the entry of every well-formed line once and
\* nothing else, whatever broken lines the file has, and of two entries
\* the one appended later comes earlier in the result.
C16_MostRecentFirst ==
    res.called =>
        /\ Len(res.entries) = Cardinality({i \in 1..Len(arg) : IsEntryLine(arg[i])})
        /\ \A i \in 1..Len(arg) : IsEntryLine(arg[i]) => Cardinality(PlaceOf(arg[i])) = 1
        /\ \A i, j \in 1..Len(arg) :
              (i < j /\ IsEntryLine(arg[i]) /\ IsEntryLine(arg[j])) =>
                  \A earlier \in PlaceOf(arg[j]), later \in PlaceOf(arg[i]) : earlier < later

\* What the code does return: every well-formed entry once, an entry of a
\* later createdAt before one of an earlier, and entries of one createdAt
\* in the order they were appended in.
LogSortedByTime ==
    res.called =>
        /\ Len(res.entries) = Cardinality({i \in 1..Len(arg) : IsEntryLine(arg[i])})
        /\ \A i \in 1..Len(arg) : IsEntryLine(arg[i]) => Cardinality(PlaceOf(arg[i])) = 1
        /\ \A i, j \in 1..Len(arg) :
              (i < j /\ IsEntryLine(arg[i]) /\ IsEntryLine(arg[j])) =>
                  \A first \in PlaceOf(arg[i]), second \in PlaceOf(arg[j]) :
                      IF arg[i].entry.createdAt = arg[j].entry.createdAt
                      THEN first < second ELSE second < first

(***************************************************************************)
(* The task list of the UI                                                 *)
(*                                                                         *)
(* App keeps the list in its state tasks.  One mutation runs at a time:    *)
(* arg is the list when it began, res the mutation, how far it has come    *)
(* and the list as it is now.  The request of a mutation either fails      *)
(* (tasksApi throws) or is answered by the server.                         *)
(***************************************************************************)
MaxShown == 3

UiIds == {T1, T2, T3}

UiTasks == {[id |-> id, title |-> "old", done |-> done] : id \in UiIds, done \in BOOLEAN}

UiLists ==
    {list \in UNION {[1..n -> UiTasks] : n \in 0..MaxShown} :
        \A i, j \in 1..Len(list) : i # j => list[i].id # list[j].id}

\* targetId of a drop that is not on a task
NoTarget == <<>>

\* tasks.findIndex((task) => task.id === id), counted from 1; 0 for -1
findIndex(tasks, id) ==
    IF \E i \in 1..Len(tasks) : tasks[i].id = id
    THEN CHOOSE i \in 1..Len(tasks) :
             /\ tasks[i].id = id
             /\ \A j \in 1..(i - 1) : tasks[j].id # id
    ELSE 0

\* next.splice(index, 1)
Without(tasks, index) ==
    SubSeq(tasks, 1, index - 1) \o SubSeq(tasks, index + 1, Len(tasks))

\* next.splice(index, 0, moved)
InsertedAt(tasks, index, moved) ==
    SubSeq(tasks, 1, index - 1) \o <<moved>> \o SubSeq(tasks, index, Len(tasks))

\* A variant of reorderTaskArray that puts the moved task after the target.
reorderTaskArrayAfterTarget(tasks, draggedId, targetId) ==
    Bind(findIndex(tasks, draggedId), LAMBDA srcIndex :
        IF srcIndex = 0 THEN tasks
        ELSE Bind(Without(tasks, srcIndex), LAMBDA next :
             IF targetId = NoTarget THEN Append(next, tasks[srcIndex])
             ELSE Bind(findIndex(next, targetId), LAMBDA dstIndex :
                  InsertedAt(next, IF dstIndex = 0 THEN Len(next) + 1 ELSE dstIndex + 1,
                             tasks[srcIndex]))))

reorderTaskArray(tasks, draggedId, targetId) ==
    Bind(findIndex(tasks, draggedId), LAMBDA srcIndex :
        IF srcIndex = 0 THEN tasks
        ELSE Bind(Without(tasks, srcIndex), LAMBDA next :
             IF targetId = NoTarget THEN Append(next, tasks[srcIndex])
             ELSE Bind(findIndex(next, targetId), LAMBDA dstIndex :
                  InsertedAt(next, IF dstIndex = 0 THEN Len(next) + 1 ELSE dstIndex,
                             tasks[srcIndex]))))

\* prev.map((t) => (t.id === taskId ? replaced : t))
MapTask(tasks, taskId, Replaced(_)) ==
    [i \in 1..Len(tasks) |-> IF tasks[i].id = taskId THEN Replaced(tasks[i]) ELSE tasks[i]]

UiIdle == res.stage = "idle"

Awaiting(op) == res.stage = "waiting" /\ res.op = op

Began(op, id, tasks) ==
    /\ res' = [called |-> TRUE, stage |-> "waiting", op |-> op, id |-> id, tasks |-> tasks]
    /\ UNCHANGED <<arg, storeVars>>

Ended(stage, tasks) ==
    /\ res' = [res EXCEPT !.stage = stage, !.tasks = tasks]
    /\ UNCHANGED <<arg, storeVars>>

InitUi ==
    /\ arg \in UiLists
    /\ res = [called |-> FALSE, stage |-> "idle", op |-> "none", id |-> NoTarget, tasks |-> arg]
    /\ StoreIdle

\* toggleTask up to await tasksApi.update: the optimistic setTasks
ToggleTaskBegins ==
    /\ UiIdle
    /\ \E taskId \in UiIds :
          /\ findIndex(res.tasks, taskId) # 0
          /\ \E currentTask \in {res.tasks[findIndex(res.tasks, taskId)]} :
                Began("toggle", taskId,
                      MapTask(res.tasks, taskId, LAMBDA t : [t EXCEPT !.done = ~currentTask.done]))

\* toggleTask, catch: setTasks(... { ...t, done: currentTask.done } ...)
ToggleTaskFails ==
    /\ Awaiting("toggle")
    /\ \E currentTask \in {arg[findIndex(arg, res.id)]} :
          Ended("failed", MapTask(res.tasks, res.id, LAMBDA t : [t EXCEPT !.done = currentTask.done]))

\* toggleTask, try: setTasks(... data.task ...)
ToggleTaskAnswered ==
    /\ Awaiting("toggle")
    /\ \E currentTask \in {arg[findIndex(arg, res.id)]} :
          Ended("done", MapTask(res.tasks, res.id, LAMBDA t : [currentTask EXCEPT !.done = ~@]))

\* handleDrop up to await tasksApi.reorder: setTasks(reorderTaskArray(prev, ...))
HandleDropBegins ==
    /\ UiIdle
    /\ \E draggedId \in UiIds \cup {UnknownId}, targetId \in UiIds \cup {NoTarget} :
          Began("reorder", draggedId, reorderTaskArray(res.tasks, draggedId, targetId))

\* handleDrop, catch: setErrorMessage only
HandleDropFails ==
    /\ Awaiting("reorder")
    /\ Ended("failed", res.tasks)

\* handleDrop, try: setTasks(data.tasks), the tasks in the order sent
HandleDropAnswered ==
    /\ Awaiting("reorder")
    /\ Ended("done", res.tasks)

\* saveTask up to await tasksApi.update
SaveTaskBegins ==
    /\ UiIdle
    /\ \E taskId \in UiIds :
          /\ findIndex(res.tasks, taskId) # 0
          /\ Began("save", taskId, res.tasks)

\* saveTask, catch: setErrorMessage, throw
SaveTaskFails ==
    /\ Awaiting("save")
    /\ Ended("failed", res.tasks)

\* saveTask, try: setTasks(... data.task ...)
SaveTaskAnswered ==
    /\ Awaiting("save")
    /\ Ended("done", MapTask(res.tasks, res.id, LAMBDA t : [t EXCEPT !.title = "new"]))

\* deleteTask up to await tasksApi.deleteTask, the deletion confirmed
DeleteTaskBegins ==
    /\ UiIdle
    /\ \E taskId \in UiIds :
          /\ findIndex(res.tasks, taskId) # 0
          /\ Began("delete", taskId, res.tasks)

\* deleteTask, catch: setErrorMessage, throw
DeleteTaskFails ==
    /\ Awaiting("delete")
    /\ Ended("failed", res.tasks)

\* deleteTask, try: setTasks(prev.filter((value) => value.id !== taskId))
DeleteTaskAnswered ==
    /\ Awaiting("delete")
    /\ Ended("done", SelectSeq(res.tasks, LAMBDA value : value.id # res.id))

\* deleteCompletedTasks up to await tasksApi.deleteCompleted, confirmed
DeleteCompletedBegins ==
    /\ UiIdle
    /\ Len(SelectSeq(res.tasks, LAMBDA task : task.done)) # 0
    /\ Began("deleteCompleted", NoTarget, res.tasks)

\* deleteCompletedTasks, catch: setErrorMessage only
DeleteCompletedFails ==
    /\ Awaiting("deleteCompleted")
    /\ Ended("failed", res.tasks)

\* deleteCompletedTasks, try: setTasks(data.tasks)
DeleteCompletedAnswered ==
    /\ Awaiting("deleteCompleted")
    /\ Ended("done", SelectSeq(res.tasks, LAMBDA task : ~task.done))

NextUi ==
    \/ ToggleTaskBegins
    \/ ToggleTaskFails
    \/ ToggleTaskAnswered
    \/ HandleDropBegins
    \/ HandleDropFails
    \/ HandleDropAnswered
    \/ SaveTaskBegins
    \/ SaveTaskFails
    \/ SaveTaskAnswered
    \/ DeleteTaskBegins
    \/ DeleteTaskFails
    \/ DeleteTaskAnswered
    \/ DeleteCompletedBegins
    \/ DeleteCompletedFails
    \/ DeleteCompletedAnswered

SpecUi == InitUi /\ [][NextUi]_vars

\* C17: when the request of a mutation of the UI (toggle done, drag
\* reorder, save edit, delete task, delete completed) has failed, the
\* local task list is the list it was before the mutation.
C17_RolledBackOnFailure == res.stage = "failed" => res.tasks = arg

\* Every mutation but the drag reorder leaves or restores the list.
RolledBackUnlessDropped ==
    (res.stage = "failed" /\ res.op # "reorder") => res.tasks = arg

(***************************************************************************)
(* Two handlers at once                                                    *)
(*                                                                         *)
(* The server callback is async: while a handler awaits, the server starts *)
(* the handler of the next request.  Here call holds two handleDeleteTask  *)
(* handlers, each between two of its awaits, with appendLogEntry taken     *)
(* apart into the entry it builds, the file it reads and the file it       *)
(* writes.                                                                 *)
(***************************************************************************)
Handlers == {1, 2}

\* The tasks the two requests may name.
AppendIds == {T1, T3}

\* The statements of appendLogEntry that await.
appendLogEntrySteps == <<"randomUUID", "readFile", "writeFile">>

HandlerIdle ==
    [op |-> "none", id |-> NoFile, records |-> <<>>, steps |-> <<>>,
     drawn |-> 0, at |-> <<>>, current |-> <<>>, status |-> 0]

InitAppend ==
    /\ files = EmptyDir
    /\ logbook = <<>>
    /\ uuids = 0
    /\ clock = 1
    /\ nreq = 0
    /\ last = [op |-> "start"]
    /\ call = [h \in Handlers |-> HandlerIdle]
    /\ arg = <<>>
    /\ res = NoResult

Running(h, statement) ==
    /\ call[h].op = "deleteOne"
    /\ Head(call[h].steps) = statement

\* handleDeleteTask up to the record found
BeginDeleteTask ==
    \E h \in Handlers, id \in AppendIds :
        /\ call[h].op = "none"
        /\ \E got \in {getTaskRecords(files, Now)} :
           \E record \in {FindRecord(got.records, id)} :
              /\ record.fileName # NoFile
              /\ files' = got.dir
              /\ call' = [call EXCEPT ![h] =
                            [HandlerIdle EXCEPT !.op = "deleteOne", !.id = id,
                                                !.records = <<record>>,
                                                !.steps = appendLogEntrySteps \o <<"rm", "sendJson">>]]
        /\ UNCHANGED <<logbook, uuids, clock, nreq, last, arg, res>>

\* if (!record) { sendJson(res, 404, ...); return; }
BeginDeleteTaskNotFound ==
    \E h \in Handlers, id \in AppendIds :
        /\ call[h].op = "none"
        /\ \E got \in {getTaskRecords(files, Now)} :
              /\ FindRecord(got.records, id).fileName = NoFile
              /\ files' = got.dir
        /\ call' = [call EXCEPT ![h] = [HandlerIdle EXCEPT !.op = "done", !.id = id, !.status = 404]]
        /\ UNCHANGED <<logbook, uuids, clock, nreq, last, arg, res>>

\* appendLogEntry: const entry = { id: randomUUID(), type, createdAt, data }
AppendBuildsEntry ==
    \E h \in Handlers :
        /\ Running(h, "randomUUID")
        /\ uuids' = uuids + 1
        /\ call' = [call EXCEPT ![h].steps = Tail(@), ![h].drawn = uuids, ![h].at = Now]
        /\ UNCHANGED <<files, logbook, clock, nreq, last, arg, res>>

\* appendLogEntry: current = await readFile(LOGBOOK_FILE, "utf8")
AppendReadsFile ==
    \E h \in Handlers :
        /\ Running(h, "readFile")
        /\ call' = [call EXCEPT ![h].steps = Tail(@), ![h].current = logbook]
        /\ UNCHANGED <<files, logbook, uuids, clock, nreq, last, arg, res>>

\* appendLogEntry: await writeFile(LOGBOOK_FILE, current + line, "utf8")
AppendWritesFile ==
    \E h \in Handlers :
        /\ Running(h, "writeFile")
        /\ logbook' = appendLogEntry(call[h].current, call[h].drawn, "task_deleted",
                                     [taskId |-> call[h].records[1].task.id,
                                      title |-> call[h].records[1].task.title,
                                      task |-> call[h].records[1].task], call[h].at)
        /\ call' = [call EXCEPT ![h].steps = Tail(@)]
        /\ UNCHANGED <<files, uuids, clock, nreq, last, arg, res>>

\* await rm(record.filePath)
DeleteRemovesFile ==
    \E h \in Handlers :
        /\ Running(h, "rm")
        /\ files' = rm(files, call[h].records[1].fileName)
        /\ call' = [call EXCEPT ![h].steps = Tail(@)]
        /\ UNCHANGED <<logbook, uuids, clock, nreq, last, arg, res>>

\* sendJson(res, 200, { ok: true })
DeleteAnswers ==
    \E h \in Handlers :
        /\ Running(h, "sendJson")
        /\ call' = [call EXCEPT ![h].steps = Tail(@), ![h].op = "done", ![h].status = 200]
        /\ nreq' = nreq + 1
        /\ UNCHANGED <<files, logbook, uuids, clock, last, arg, res>>

NextAppend ==
    \/ BeginDeleteTask
    \/ BeginDeleteTaskNotFound
    \/ AppendBuildsEntry
    \/ AppendReadsFile
    \/ AppendWritesFile
    \/ DeleteRemovesFile
    \/ DeleteAnswers

SpecAppend == InitAppend /\ [][NextAppend]_vars

\* The handler has answered 200, so its appendLogEntry has returned.
Appended200(h) == call[h].op = "done" /\ call[h].status = 200

\* The log holds the entry the handler built.
HoldsEntryOf(h) == \E k \in 1..Len(logbook) : logbook[k].id = randomUUID(call[h].drawn + 1)

\* C18: when two handlers that each call appendLogEntry have both
\* completed, however their awaits interleaved, the logbook holds the
\* entry of each.
C18_NoEntryLost ==
    (Appended200(1) /\ Appended200(2)) => (HoldsEntryOf(1) /\ HoldsEntryOf(2))

\* The entry of a handler is lost only to a handler that read the file
\* before the entry was written and wrote it after.
EntryLostToStaleWrite ==
    \A h \in Handlers :
        (Appended200(h) /\ ~HoldsEntryOf(h)) =>
            \E other \in Handlers \ {h} :
                /\ call[other].op \in {"deleteOne", "done"}
                /\ \A k \in 1..Len(call[other].current) :
                       call[other].current[k].id # randomUUID(call[h].drawn + 1)
                /\ \E k \in 1..Len(logbook) : logbook[k].id = randomUUID(call[other].drawn + 1)

(***************************************************************************)
(* handleUpdateTask step by step                                           *)
(*                                                                         *)
(* writeTask awaits writeFile and then rm; call holds the handler between  *)
(* two awaits: the record it found, the record writeTask returns, and the  *)
(* statements it has yet to run.                                           *)
(***************************************************************************)

\* A variant of writeTaskSteps that removes the previous file first.
writeTaskStepsRemovingFirst == <<"rm", "writeFile">>

\* The statements of writeTask that await.
writeTaskSteps == <<"writeFile", "rm">>

\* handleUpdateTask when it answers 404 or 400
UpdateTaskRefused ==
    /\ call = NoCall
    /\ \E r \in UpdateRequests :
       \E reply \in {handleUpdateTask(files, logbook, uuids, r.id, r.body, Now)} :
          /\ reply.status # 200
          /\ Handled(Request("update", r.id, r.body), reply)

\* handleUpdateTask up to the call of writeTask, and writeTask up to its
\* first await: the record found, updatedTask, normalized, nextFileName.
BeginUpdateTask ==
    /\ call = NoCall
    /\ nreq < MaxRequests
    /\ \E r \in UpdateRequests :
       \E got \in {getTaskRecords(files, Now)} :
       \E record \in {FindRecord(got.records, r.id)} :
          /\ record.fileName # NoFile
          /\ \E nextTitle \in {IF ~HasField(r.body, "title") THEN record.task.title
                               ELSE Trim(JsString(r.body.title))} :
                /\ nextTitle # <<>>
                /\ \E updatedTask \in {normalizeTask(UpdatedObject(record.task, r.body, nextTitle, Now), Now)} :
                   \E saved \in {writeTask(got.dir, TaskObject(updatedTask), record.fileName, Now).record} :
                      call' = [op |-> "update", id |-> r.id, body |-> r.body,
                               records |-> <<record>>, saved |-> saved,
                               steps |-> writeTaskSteps \o <<"appendLogEntry", "sendJson">>,
                               before |-> files, logBefore |-> logbook, at |-> Now]
          /\ files' = got.dir
    /\ UNCHANGED <<logbook, uuids, clock, nreq, last, arg, res>>

\* await writeFile(nextPath, taskToMarkdown(normalized), "utf8")
WriteTaskWritesFile ==
    /\ InFlight("update")
    /\ NextStatement = "writeFile"
    /\ files' = writeFile(files, call.saved.fileName,
                          markdownDocument(TaskObject(call.saved.task), call.at))
    /\ call' = [call EXCEPT !.steps = Tail(@)]
    /\ UNCHANGED <<logbook, uuids, clock, nreq, last, arg, res>>

\* if (previousFileName && previousFileName !== nextFileName) await rm(previousPath)
WriteTaskRemovesPrevious ==
    /\ InFlight("update")
    /\ NextStatement = "rm"
    /\ files' = IF call.records[1].fileName # NoFile
                   /\ call.records[1].fileName # call.saved.fileName
                THEN rm(files, call.records[1].fileName)
                ELSE files
    /\ call' = [call EXCEPT !.steps = Tail(@)]
    /\ UNCHANGED <<logbook, uuids, clock, nreq, last, arg, res>>

\* if ("done" in body && saved.task.done !== record.task.done) await appendLogEntry(...)
UpdateTaskAppendLogEntry ==
    /\ InFlight("update")
    /\ NextStatement = "appendLogEntry"
    /\ IF doneToggled(call.body, [record |-> call.saved], call.records[1])
       THEN /\ logbook' = appendLogEntry(logbook, uuids,
                               IF call.saved.task.done THEN "task_completed" ELSE "task_reopened",
                               [taskId |-> call.saved.task.id,
                                title |-> call.saved.task.title,
                                task |-> call.saved.task], Now)
            /\ uuids' = uuids + 1
       ELSE UNCHANGED <<logbook, uuids>>
    /\ call' = [call EXCEPT !.steps = Tail(@)]
    /\ UNCHANGED <<files, clock, nreq, last, arg, res>>

\* sendJson(res, 200, { task: saved.task })
UpdateTaskSendJson ==
    /\ InFlight("update")
    /\ NextStatement = "sendJson"
    /\ last' = [op |-> "update", id |-> call.id, body |-> call.body, status |-> 200,
                response |-> [task |-> call.saved.task],
                before |-> call.before, logBefore |-> call.logBefore, at |-> call.at]
    /\ nreq' = nreq + 1
    /\ call' = NoCall
    /\ UNCHANGED <<files, logbook, uuids, clock, arg, res>>

NextWrites ==
    \/ Tick
    \/ UpdateTaskRefused
    \/ BeginUpdateTask
    \/ WriteTaskWritesFile
    \/ WriteTaskRemovesPrevious
    \/ UpdateTaskAppendLogEntry
    \/ UpdateTaskSendJson

SpecWrites == Init /\ [][NextWrites]_vars

\* The names of the files that hold the task of an id.
FilesOf(id) == {name \in DOMAIN files : parseDocument(files[name], Now).task.id = id}

\* The update in flight changes the file name of its task.
Renaming == InFlight("update") /\ call.records[1].fileName # call.saved.fileName

\* C20: when an update changes the title so that the file name changes,
\* between any two steps of the update a file of the task exists, the file
\* of the old name is there until the file of the new name is written,
\* and after the update the task has one file, of the new name.
C20_WrittenBeforeRemoved ==
    /\ Renaming =>
          /\ FilesOf(call.id) # {}
          /\ call.records[1].fileName \notin DOMAIN files => call.saved.fileName \in DOMAIN files
    /\ (call = NoCall /\ last.op = "update" /\ last.status = 200) =>
          FilesOf(last.id) = {taskFilename(last.response.task)}

\* C20 witness: a renaming update is between writeFile and rm, and the
\* task has the file of the old name and the file of the new name.
C20_Witness ==
    /\ Renaming
    /\ NextStatement = "rm"
    /\ FilesOf(call.id) = {call.records[1].fileName, call.saved.fileName}


(***************************************************************************)
(* The UI and the server together                                          *)
(*                                                                         *)
(* One UI action at a time: the handler of the UI sends its request, the   *)
(* server handles it and answers, and the handler sets the local list      *)
(* from the answer.  res holds the local list of App, the store variables  *)
(* the server.  Only the actions whose request succeeds are followed.      *)
(***************************************************************************)
MaxUiActions == 3

InitSync ==
    /\ StoreIdle
    /\ arg = <<>>
    /\ res = [called |-> FALSE, loaded |-> FALSE, tasks |-> <<>>]

\* The request of a UI action is answered and the handler has set tasks.
UiHandled(request, reply, tasks) ==
    /\ nreq < MaxUiActions
    /\ reply.status \in {200, 201}
    /\ nreq' = nreq + 1
    /\ files' = reply.dir
    /\ logbook' = reply.log
    /\ uuids' = reply.drawn
    /\ last' = [op |-> request.op, id |-> request.id, body |-> request.body,
                status |-> reply.status, response |-> reply.body,
                before |-> files, logBefore |-> logbook, at |-> Now]
    /\ res' = [called |-> TRUE, loaded |-> TRUE, tasks |-> tasks]
    /\ UNCHANGED <<clock, call, arg>>

\* loadTasks: setTasks(data.tasks)
UiLoadTasks ==
    /\ ~res.loaded
    /\ \E reply \in {handleListTasks(files, logbook, uuids, Now)} :
          UiHandled(Request("list", NoFile, EmptyBody), reply, reply.body.tasks)

\* The payload addTask sends for a title.
AddPayload(title) ==
    Body([title |-> JStr(title), description |-> JStr(<<>>),
          tags |-> JArr(<<JStr(DEFAULT_TAG)>>)])

\* addTask: setTasks((prev) => [data.task, ...prev])
UiAddTask ==
    /\ res.loaded
    /\ \E title \in {BuyMilk} :
       \E reply \in {handleCreateTask(files, logbook, uuids, AddPayload(title), Now)} :
          UiHandled(Request("create", NoFile, AddPayload(title)), reply,
                    <<reply.body.task>> \o res.tasks)

\* prev.map((t) => (t.id === taskId ? data.task : t))
Replaced(tasks, taskId, task) ==
    [i \in 1..Len(tasks) |-> IF tasks[i].id = taskId THEN task ELSE tasks[i]]

\* toggleTask: update(taskId, { done: nextDone }), then data.task replaces
UiToggleTask ==
    /\ res.loaded
    /\ \E i \in 1..Len(res.tasks) :
       \E payload \in {Body([done |-> JBool(~res.tasks[i].done)])} :
       \E reply \in {handleUpdateTask(files, logbook, uuids, res.tasks[i].id, payload, Now)} :
          /\ reply.status = 200
          /\ UiHandled(Request("update", res.tasks[i].id, payload), reply,
                       Replaced(res.tasks, res.tasks[i].id, reply.body.task))

\* The payload the editor sends for a task with a new title.
SavePayload(task, title) ==
    Body([title |-> JStr(title), description |-> JStr(Trim(task.description)),
          tags |-> JArr(StrValues(normalizeTaskTags([tags |-> JArr(StrValues(task.tags)), tag |-> JUndef])))])

\* saveTask: update(taskId, updates), then data.task replaces
UiSaveTask ==
    /\ res.loaded
    /\ \E i \in 1..Len(res.tasks) :
       \E payload \in {SavePayload(res.tasks[i], PayMarco)} :
       \E reply \in {handleUpdateTask(files, logbook, uuids, res.tasks[i].id, payload, Now)} :
          /\ reply.status = 200
          /\ UiHandled(Request("update", res.tasks[i].id, payload), reply,
                       Replaced(res.tasks, res.tasks[i].id, reply.body.task))

\* The payload handleDrop sends: nextTasks.map((task) => task.id)
ReorderPayload(tasks) ==
    Body([taskIds |-> JArr([i \in 1..Len(tasks) |-> JStr(tasks[i].id)])])

\* handleDrop: setTasks(reorderTaskArray(...)), reorder, setTasks(data.tasks)
UiHandleDrop ==
    /\ res.loaded
    /\ \E draggedId \in Ids(res.tasks), targetId \in Ids(res.tasks) \cup {NoTarget} :
       \E payload \in {ReorderPayload(reorderTaskArray(res.tasks, draggedId, targetId))} :
       \E reply \in {handleReorderTasks(files, logbook, uuids, payload, Now)} :
          /\ reply.status = 200
          /\ UiHandled(Request("reorder", NoFile, payload), reply, reply.body.tasks)

\* deleteTask: deleteTask(taskId), then prev.filter
UiDeleteTask ==
    /\ res.loaded
    /\ \E i \in 1..Len(res.tasks) :
       \E reply \in {handleDeleteTask(files, logbook, uuids, res.tasks[i].id, Now)} :
          /\ reply.status = 200
          /\ UiHandled(Request("deleteOne", res.tasks[i].id, EmptyBody), reply,
                       SelectSeq(res.tasks, LAMBDA value : value.id # res.tasks[i].id))

\* deleteCompletedTasks: deleteCompleted(), then setTasks(data.tasks)
UiDeleteCompleted ==
    /\ res.loaded
    /\ Len(SelectSeq(res.tasks, LAMBDA task : task.done)) # 0
    /\ \E reply \in {handleDeleteCompletedTasks(files, logbook, uuids, Now)} :
          UiHandled(Request("deleteCompleted", NoFile, EmptyBody), reply, reply.body.tasks)

NextSync ==
    \/ UiLoadTasks
    \/ UiAddTask
    \/ UiToggleTask
    \/ UiSaveTask
    \/ UiHandleDrop
    \/ UiDeleteTask
    \/ UiDeleteCompleted

SpecSync == InitSync /\ [][NextSync]_vars

\* C22: after every UI action that has been awaited and has succeeded,
\* the local task list of the UI holds the ids of the tasks list()
\* returns, in the order list() returns them.
C22_UiFollowsServer ==
    res.loaded => IdsInOrder(res.tasks) = IdsInOrder(ListAt(files, Now))


\* The UI actions that set the local list from the list of the answer
\* (load, drag reorder, delete completed) leave it following the server.
UiFollowsServerAfterList ==
    (res.loaded /\ last.op \in {"list", "reorder", "deleteCompleted"}) =>
        IdsInOrder(res.tasks) = IdsInOrder(ListAt(files, Now))

(***************************************************************************)
(* Two updates of one task at once                                         *)
(*                                                                         *)
(* call holds two handleUpdateTask handlers of requests that set the       *)
(* title of the same task, each between two of its awaits.                 *)
(***************************************************************************)

\* The tasks the two requests may name.
RenameIds == {T1, T2}

\* The title each of the two requests sends.
RenameTitles == {<<PayMarco, BuyMilk>>, <<BuyMilk, PayMarco>>}

RenameIdle ==
    [op |-> "none", id |-> NoFile, records |-> <<>>, saved |-> NoRecord, steps |-> <<>>,
     at |-> <<>>, status |-> 0]

InitRename ==
    /\ files = EmptyDir
    /\ logbook = <<>>
    /\ uuids = 0
    /\ clock = 1
    /\ nreq = 0
    /\ last = [op |-> "start"]
    /\ call = [h \in Handlers |-> RenameIdle]
    /\ arg \in RenameTitles
    /\ res = NoResult

Renames(h, statement) ==
    /\ call[h].op = "update"
    /\ Head(call[h].steps) = statement

\* handleUpdateTask up to the call of writeTask, and writeTask up to its
\* first await
RenameBegins ==
    \E h \in Handlers, id \in RenameIds :
        /\ call[h].op = "none"
        /\ \A other \in Handlers : call[other].op = "none" \/ call[other].id = id
        /\ \E got \in {getTaskRecords(files, Now)} :
           \E record \in {FindRecord(got.records, id)} :
           \E body \in {Body([title |-> JStr(arg[h])])} :
           \E updatedTask \in {normalizeTask(UpdatedObject(record.task, body,
                                                           Trim(JsString(body.title)), Now), Now)} :
           \E saved \in {writeTask(got.dir, TaskObject(updatedTask), record.fileName, Now).record} :
              /\ record.fileName # NoFile
              /\ files' = got.dir
              /\ call' = [call EXCEPT ![h] =
                            [RenameIdle EXCEPT !.op = "update", !.id = id,
                                               !.records = <<record>>, !.saved = saved,
                                               !.steps = writeTaskSteps \o <<"sendJson">>,
                                               !.at = Now]]
        /\ UNCHANGED <<logbook, uuids, clock, nreq, last, arg, res>>

\* await writeFile(nextPath, taskToMarkdown(normalized), "utf8")
RenameWritesFile ==
    \E h \in Handlers :
        /\ Renames(h, "writeFile")
        /\ files' = writeFile(files, call[h].saved.fileName,
                              markdownDocument(TaskObject(call[h].saved.task), call[h].at))
        /\ call' = [call EXCEPT ![h].steps = Tail(@)]
        /\ UNCHANGED <<logbook, uuids, clock, nreq, last, arg, res>>

\* if (previousFileName && previousFileName !== nextFileName) await rm(previousPath),
\* ENOENT caught
RenameRemovesPrevious ==
    \E h \in Handlers :
        /\ Renames(h, "rm")
        /\ files' = IF call[h].records[1].fileName # call[h].saved.fileName
                    THEN rm(files, call[h].records[1].fileName)
                    ELSE files
        /\ call' = [call EXCEPT ![h].steps = Tail(@)]
        /\ UNCHANGED <<logbook, uuids, clock, nreq, last, arg, res>>

\* sendJson(res, 200, { task: saved.task })
RenameAnswers ==
    \E h \in Handlers :
        /\ Renames(h, "sendJson")
        /\ call' = [call EXCEPT ![h].steps = Tail(@), ![h].op = "done", ![h].status = 200]
        /\ nreq' = nreq + 1
        /\ UNCHANGED <<files, logbook, uuids, clock, last, arg, res>>

NextRename ==
    \/ RenameBegins
    \/ RenameWritesFile
    \/ RenameRemovesPrevious
    \/ RenameAnswers

SpecRename == InitRename /\ [][NextRename]_vars

BothRenamed == \A h \in Handlers : call[h].op = "done" /\ call[h].status = 200

\* C24: when two updates of one task that set different titles have both
\* completed, however their awaits interleaved, the task has one file.
C24_OneFileAfterBoth ==
    BothRenamed => Cardinality(FilesOf(call[1].id)) = 1

\* Two files are left only when both handlers found the task under the
\* same file name, that is when the second read the directory before the
\* first removed the file.
TwoFilesOnlyWhenOverlapped ==
    (BothRenamed /\ Cardinality(FilesOf(call[1].id)) # 1) =>
        call[1].records[1].fileName = call[2].records[1].fileName

(***************************************************************************)
(* Two toggles of one task at once                                         *)
(*                                                                         *)
(* The user toggles a task and toggles it again before the first request   *)
(* is answered.  call holds the two toggleTask handlers: the done flag     *)
(* each found (currentTask.done), whether its request is waiting, handled  *)
(* by the server or failed, and the task of the answer.  res holds the     *)
(* local list.  The server handles the requests, and the UI the answers,   *)
(* in either order.                                                        *)
(***************************************************************************)

\* The tasks the user may toggle.
ToggleIds == {T1, T2, T3}

ToggleIdle == [op |-> "none", id |-> NoFile, was |-> FALSE, task |-> NoRecord]

InitToggle ==
    /\ files = EmptyDir
    /\ logbook = <<>>
    /\ uuids = 0
    /\ clock = 1
    /\ nreq = 0
    /\ last = [op |-> "start"]
    /\ call = [h \in Handlers |-> ToggleIdle]
    /\ arg = <<>>
    /\ res = [called |-> FALSE, loaded |-> FALSE, tasks |-> <<>>]

\* loadTasks: setTasks(data.tasks)
ToggleLoadTasks ==
    /\ ~res.loaded
    /\ \E reply \in {handleListTasks(files, logbook, uuids, Now)} :
          /\ files' = reply.dir
          /\ res' = [called |-> TRUE, loaded |-> TRUE, tasks |-> reply.body.tasks]
    /\ UNCHANGED <<logbook, uuids, clock, nreq, last, call, arg>>

\* prev.map((t) => (t.id === taskId ? { ...t, done } : t))
WithDone(tasks, taskId, done) ==
    [i \in 1..Len(tasks) |-> IF tasks[i].id = taskId THEN [tasks[i] EXCEPT !.done = done]
                             ELSE tasks[i]]

\* toggleTask up to await tasksApi.update: the first toggle of a task, or
\* the second of the same task while the first is not yet answered to the UI
ToggleBegins ==
    /\ res.loaded
    /\ \E h \in Handlers, id \in ToggleIds :
          /\ call[h].op = "none"
          /\ h = 1 \/ (call[1].op \in {"waiting", "answered", "failed"} /\ call[1].id = id)
          /\ \E currentTask \in {TaskOf(res.tasks, id)} :
                /\ res' = [res EXCEPT !.tasks = WithDone(@, id, ~currentTask.done)]
                /\ call' = [call EXCEPT ![h] = [ToggleIdle EXCEPT !.op = "waiting", !.id = id,
                                                                  !.was = currentTask.done]]
    /\ UNCHANGED <<files, logbook, uuids, clock, nreq, last, arg>>

\* The server handles the request of a toggle: handleUpdateTask with
\* { done: nextDone }
ToggleRequestHandled ==
    \E h \in Handlers :
        /\ call[h].op = "waiting"
        /\ \E reply \in {handleUpdateTask(files, logbook, uuids, call[h].id,
                                          Body([done |-> JBool(~call[h].was)]), Now)} :
              /\ reply.status = 200
              /\ files' = reply.dir
              /\ logbook' = reply.log
              /\ uuids' = reply.drawn
              /\ call' = [call EXCEPT ![h].op = "answered", ![h].task = reply.body.task]
        /\ nreq' = nreq + 1
        /\ UNCHANGED <<clock, last, arg, res>>

\* The request of a toggle fails before the server handles it.
ToggleRequestFails ==
    \E h \in Handlers :
        /\ call[h].op = "waiting"
        /\ call' = [call EXCEPT ![h].op = "failed"]
        /\ UNCHANGED <<files, logbook, uuids, clock, nreq, last, arg, res>>

\* toggleTask, try: setTasks(... data.task ...)
ToggleAnswerHandled ==
    \E h \in Handlers :
        /\ call[h].op = "answered"
        /\ res' = [res EXCEPT !.tasks = Replaced(@, call[h].id, call[h].task)]
        /\ call' = [call EXCEPT ![h].op = "done"]
        /\ UNCHANGED <<files, logbook, uuids, clock, nreq, last, arg>>

\* toggleTask, catch: setTasks(... { ...t, done: currentTask.done } ...)
ToggleFailureHandled ==
    \E h \in Handlers :
        /\ call[h].op = "failed"
        /\ res' = [res EXCEPT !.tasks = WithDone(@, call[h].id, call[h].was)]
        /\ call' = [call EXCEPT ![h].op = "done"]
        /\ UNCHANGED <<files, logbook, uuids, clock, nreq, last, arg>>

NextToggle ==
    \/ ToggleLoadTasks
    \/ ToggleBegins
    \/ ToggleRequestHandled
    \/ ToggleRequestFails
    \/ ToggleAnswerHandled
    \/ ToggleFailureHandled

SpecToggle == InitToggle /\ [][NextToggle]_vars

BothToggled == \A h \in Handlers : call[h].op = "done"

\* C25: when the answers of two toggles of one task, the second made
\* while the first request was in flight, have both been handled, the
\* done flag the UI shows for the task is the done flag the server stores.
C25_ShownIsStored ==
    BothToggled =>
        TaskOf(res.tasks, call[1].id).done = TaskOf(ListAt(files, Now), call[1].id).done

\* After one toggle alone, answered or failed, the UI shows what is stored.
ShownIsStoredAfterOne ==
    (call[1].op = "done" /\ call[2].op = "none") =>
        TaskOf(res.tasks, call[1].id).done = TaskOf(ListAt(files, Now), call[1].id).done

(***************************************************************************)
(* deleteTagEverywhere called twice                                        *)
(*                                                                         *)
(* After one request of another kind has filled the store, the same tag    *)
(* is deleted everywhere twice in a row.  arg is the body of the two       *)
(* requests, res counts them.                                              *)
(***************************************************************************)

\* The bodies the two requests may have.
TwiceBodies ==
    { Body([tag |-> JStr(<<"w","o","r","k">>)]),
      Body([tag |-> JStr(<<" ","G","E","N","E","R","A","L"," ">>)]),
      Body([tag |-> JStr(DEFAULT_TAG)]),
      Body([tag |-> JStr(Home)]),
      Body([tag |-> JStr(<<"P","e","r","s","o","n","a","l">>)]) }

InitTwice ==
    /\ StoreIdle
    /\ arg \in TwiceBodies
    /\ res = [called |-> FALSE, calls |-> 0]

\* The request that fills the store before the two calls.
TwicePrelude ==
    /\ nreq = 0
    /\ \/ ListTasks
       \/ CreateTask
       \/ UpdateTask
       \/ DeleteTask

\* handleDeleteTagEverywhere, for the first and for the second time
DeleteTagAgain ==
    /\ nreq > 0
    /\ res.calls < 2
    /\ \E reply \in {handleDeleteTagEverywhere(files, logbook, uuids, arg, Now)} :
          /\ files' = reply.dir
          /\ logbook' = reply.log
          /\ uuids' = reply.drawn
          /\ last' = [op |-> "deleteTag", id |-> NoFile, body |-> arg,
                      status |-> reply.status, response |-> reply.body,
                      before |-> files, logBefore |-> logbook, at |-> Now]
    /\ nreq' = nreq + 1
    /\ res' = [called |-> TRUE, calls |-> res.calls + 1]
    /\ UNCHANGED <<clock, call, arg>>

\* Time passes between two of the requests.
TwiceTick ==
    /\ nreq > 0
    /\ res.calls < 2
    /\ clock <= nreq
    /\ clock' = clock + 1
    /\ UNCHANGED <<files, logbook, uuids, nreq, last, call, arg, res>>

NextTwice ==
    \/ TwicePrelude
    \/ DeleteTagAgain
    \/ TwiceTick

SpecTwice == InitTwice /\ [][NextTwice]_vars

\* The last request was the second of the two calls.
CalledTwice == res.calls = 2 /\ last.op = "deleteTag" /\ last.status = 200

\* The second call changed nothing.
SecondCallIdle ==
    /\ last.response.changedCount = 0
    /\ NothingWritten
    /\ last.response.tasks = ListAt(last.before, last.at)

\* The tag of the two calls is the default tag, in any case of letters.
DefaultTagSent == ToLowerCase(SentText("tag")) = ToLowerCase(DEFAULT_TAG)

\* C27 as stated: a second deleteTagEverywhere of any tag, made right after
\* the first, reports changedCount = 0, changes no task and appends no
\* logbook entry.
C27_DeleteTagIdempotent == CalledTwice => SecondCallIdle

\* C27, amended: the same for every tag but the default tag General.
C27_DeleteTagIdempotentUnlessDefault ==
    (CalledTwice /\ ~DefaultTagSent) => SecondCallIdle

\* C27 witness: the second call of a tag that is not the default tag has
\* answered, and the first call had removed the tag from a task.
C27_Witness ==
    /\ CalledTwice
    /\ ~DefaultTagSent
    /\ SecondCallIdle
    /\ \E k \in 1..Len(logbook) :
          /\ logbook[k].type = "tag_deleted_everywhere"
          /\ logbook[k].data.changedCount > 0

(***************************************************************************)
(* list() as a pure function of the directory                              *)
(*                                                                         *)
(* arg is a task directory as it may be found: task files written by the   *)
(* server, files without the frontmatter fences, and a file that is not a  *)
(* markdown file.                                                          *)
(***************************************************************************)

\* The names of the markdown files and the ids of their tasks.
ListNames == << <<"a",".","m","d">>, <<"b",".","m","d">>, <<"c",".","m","d">> >>

ListIds == << <<"a">>, <<"b">>, <<"c">> >>

OtherName == <<"n",".","t","x","t">>

ListOrders == {0, 1}

ListTimes == {toISOString(1), toISOString(2)}

\* The file writeTask writes for the task of a slot.
ListedDocument(slot, order, createdAt) ==
    markdownDocument(SeedObject([id |-> ListIds[slot], title |-> BuyMilk, description |-> <<>>,
                                 tags |-> <<Home>>, done |-> FALSE, order |-> order],
                                createdAt), createdAt)

\* A file without the frontmatter fences.
UnfencedDocument == [fenced |-> FALSE, meta |-> EmptyObject, body |-> BuyMilk]

\* What a slot may hold.
SlotContents ==
    [slot \in 1..Len(ListNames) |->
        {UnfencedDocument}
        \cup {ListedDocument(slot, order, createdAt) : order \in ListOrders, createdAt \in ListTimes}]

\* The directories: every slot absent or with one of its contents, with or
\* without the other file.
ListDirectories ==
    UNION {UNION {[present \cup other -> UNION {SlotContents[slot] : slot \in 1..Len(ListNames)}]
                  : other \in {{}, {OtherName}}}
           : present \in SUBSET Range(ListNames)}

SlotOf(name) == CHOOSE slot \in 1..Len(ListNames) : ListNames[slot] = name

InitList ==
    /\ StoreIdle
    /\ arg \in {dir \in ListDirectories :
                   \A name \in DOMAIN dir :
                       IF name = OtherName THEN dir[name] \in SlotContents[1]
                       ELSE dir[name] \in SlotContents[SlotOf(name)]}
    /\ res = NoResult

\* GET /api/tasks
CallListTasks ==
    /\ ~res.called
    /\ res' = [called |-> TRUE, reply |-> handleListTasks(arg, <<>>, 0, Now)]
    /\ UNCHANGED <<arg, storeVars>>

NextList == CallListTasks

SpecList == InitList /\ [][NextList]_vars

\* The markdown files of a directory that have the frontmatter fences.
WellFormedFiles(dir) == {name \in DOMAIN dir : EndsWithMd(name) /\ dir[name].fenced}

\* C29: list() answers 200 with exactly the tasks of the markdown files
\* of the directory that have the frontmatter block, one each, ordered by
\* order ascending and, for equal order, by createdAt ascending.
C29_ListWellFormedSorted ==
    res.called =>
        Bind(res.reply.body.tasks, LAMBDA tasks :
            /\ res.reply.status = 200
            /\ Len(tasks) = Cardinality(WellFormedFiles(res.reply.dir))
            /\ \A name \in WellFormedFiles(res.reply.dir) :
                   Cardinality({i \in 1..Len(tasks) :
                                   tasks[i] = parseDocument(res.reply.dir[name], Now).task}) = 1
            /\ \A i, j \in 1..Len(tasks) :
                   i < j =>
                       \/ tasks[i].order < tasks[j].order
                       \/ /\ tasks[i].order = tasks[j].order
                          /\ localeCompare(JsString(tasks[i].createdAt),
                                           JsString(tasks[j].createdAt)) <= 0)

\* C29 witness: list() of a directory with an unfenced markdown file and
\* two task files of one order, the one of the later name created first.
C29_Witness ==
    /\ res.called
    /\ DOMAIN arg = Range(ListNames)
    /\ ~arg[ListNames[1]].fenced
    /\ Len(res.reply.body.tasks) = 2
    /\ res.reply.body.tasks[1].id = ListIds[3]
    /\ res.reply.body.tasks[2].id = ListIds[2]
    /\ res.reply.body.tasks[1].order = res.reply.body.tasks[2].order

(***************************************************************************)
(* reorderTaskArray as a pure function                                     *)
(*                                                                         *)
(* arg is a call: a list of the UI, the id of the dragged task and the id  *)
(* of the task it is dropped on, each an id of the list, an id of no task  *)
(* of the list, or (the target) none.                                      *)
(***************************************************************************)
DragCalls ==
    [tasks : UiLists, draggedId : UiIds \cup {UnknownId}, targetId : UiIds \cup {UnknownId, NoTarget}]

InitDrag ==
    /\ StoreIdle
    /\ arg \in DragCalls
    /\ res = NoResult

CallReorderTaskArray ==
    /\ ~res.called
    /\ res' = [called |-> TRUE, tasks |-> reorderTaskArray(arg.tasks, arg.draggedId, arg.targetId)]
    /\ UNCHANGED <<arg, storeVars>>

NextDrag == CallReorderTaskArray

SpecDrag == InitDrag /\ [][NextDrag]_vars

\* The id names a task of the list.
Names(id, tasks) == \E i \in 1..Len(tasks) : tasks[i].id = id

\* How often a task occurs in a list.
Occurrences(task, tasks) == Cardinality({i \in 1..Len(tasks) : tasks[i] = task})

IsPermutation(out, tasks) ==
    /\ Len(out) = Len(tasks)
    /\ \A task \in Range(out) \cup Range(tasks) : Occurrences(task, out) = Occurrences(task, tasks)

\* The tasks of a list other than the one of the id, in their order.
Others(tasks, id) == SelectSeq(tasks, LAMBDA task : task.id # id)

\* C30: reorderTaskArray returns a permutation of tasks; a dragged task
\* dropped on another task of the list ends immediately before it and the
\* other tasks keep their relative order; with no target, or a target that
\* names no task, the dragged task ends last; a draggedId that names no task
\* leaves the list as it was.
C30_ReorderIsPermutation ==
    res.called =>
        /\ IsPermutation(res.tasks, arg.tasks)
        /\ (/\ Names(arg.draggedId, arg.tasks)
            /\ Names(arg.targetId, arg.tasks)
            /\ arg.draggedId # arg.targetId)
           => /\ \E i \in 1..(Len(res.tasks) - 1) :
                     /\ res.tasks[i].id = arg.draggedId
                     /\ res.tasks[i + 1].id = arg.targetId
              /\ Others(res.tasks, arg.draggedId) = Others(arg.tasks, arg.draggedId)
        /\ (/\ Names(arg.draggedId, arg.tasks)
            /\ (arg.targetId = NoTarget \/ ~Names(arg.targetId, arg.tasks)))
           => res.tasks[Len(res.tasks)].id = arg.draggedId
        /\ ~Names(arg.draggedId, arg.tasks) => res.tasks = arg.tasks

\* C30 witness: the last of three tasks was dropped on the first and is
\* now first, before its target.
C30_Witness ==
    /\ res.called
    /\ Len(arg.tasks) = 3
    /\ arg.draggedId = arg.tasks[3].id
    /\ arg.targetId = arg.tasks[1].id
    /\ res.tasks[1].id = arg.draggedId
    /\ res.tasks[2].id = arg.targetId

\* The call drops a task of the list onto itself.
DroppedOnItself ==
    /\ res.called
    /\ Names(arg.draggedId, arg.tasks)
    /\ arg.targetId = arg.draggedId

\* C31: a task dropped onto itself is not moved: reorderTaskArray(tasks,
\* d, d), for a task d of the list, returns the tasks in their original
\* order.
C31_DropOnItselfKeepsOrder == DroppedOnItself => res.tasks = arg.tasks

\* What the code does instead: the task dropped onto itself ends last, the
\* other tasks keeping their order, so the list is as before only when the
\* task was last already.
DropOnItselfMovesLast ==
    DroppedOnItself =>
        /\ res.tasks[Len(res.tasks)].id = arg.draggedId
        /\ Others(res.tasks, arg.draggedId) = Others(arg.tasks, arg.draggedId)
        /\ (res.tasks = arg.tasks) <=> (arg.tasks[Len(arg.tasks)].id = arg.draggedId)

====
